---------------------------- MODULE Spec2Model ----------------------------
(***************************************************************************)
(* Retrieval & query-understanding engine of NCV                           *)
(* (src/RetrievalFilter.ipynb, class RetrievalAndFiltering) together with  *)
(* the VectorStoreManager it imports (src/Vectorstor_Ollama.ipynb).        *)
(*                                                                         *)
(* Representation.  A Python str is the sequence of its characters, each   *)
(* character a one-character TLA+ string.  A dict is a function whose      *)
(* domain is its key set.  A float is a fixed-point integer counted in     *)
(* units of 1/FIXED (FIXED = 100), which is exact for every decimal        *)
(* literal of the sample texts; a ratio that need not be representable     *)
(* (percentage_difference) is kept as an exact fraction [num, den].        *)
(* Fixed message literals that the code never inspects are TLA+ strings.   *)
(***************************************************************************)
EXTENDS Integers, Sequences, FiniteSets, TLC

VARIABLES
  pc,           \* "new" before RetrievalAndFiltering() ran, then "idle" between calls and "returned" after one; "function" before a method is applied on its own and "applied" after; "embed", "loop", "posted", "returned" or "raised" along _embed_single
  disk,         \* what is on disk: the DeepLake dataset and saved_chunks.json
  vectorstore,  \* VectorStoreManager.vectorstore: "None" or "DeepLake"
  qa_pipeline,  \* RetrievalAndFiltering.qa_pipeline: "None" or "pipeline"
  loadCalls,    \* history: calls of load_vectorstore so far
  createCalls,  \* history: calls of create_vectorstore so far
  initCalls,    \* history: runs of _initialize_vectorstore so far
  call,         \* history: the last operation, its inputs and what it asked of the collaborators
  result        \* the value the last operation returned

vars == <<pc, disk, vectorstore, qa_pipeline, loadCalls, createCalls, initCalls, call, result>>

\* ---------------------------------------------------------------- bounds
MaxTopK == 2
MaxLoadCalls == 6
MaxEntities == 2
MaxPoints == 2
\* the largest limit given to search_by_metadata, besides its default
MaxLimit == 2
\* the largest retries given to _embed_single
MaxRetries == 3

\* ------------------------------------------------------- string literals
KNOWN_COMPANIES ==
  <<
  \* "Dangote Cement"
  <<"D","a","n","g","o","t","e"," ","C","e","m","e","n","t">>,
  \* "Maaden"
  <<"M","a","a","d","e","n">>,
  \* "Chemplast Sanmar"
  <<"C","h","e","m","p","l","a","s","t"," ","S","a","n","m","a","r">>,
  \* "Saudi Aramco"
  <<"S","a","u","d","i"," ","A","r","a","m","c","o">>,
  \* "Nestle"
  <<"N","e","s","t","l","e">>,
  \* "Unilever"
  <<"U","n","i","l","e","v","e","r">>,
  \* "Tata Steel"
  <<"T","a","t","a"," ","S","t","e","e","l">>,
  \* "Siemens"
  <<"S","i","e","m","e","n","s">>,
  \* "Shell"
  <<"S","h","e","l","l">>,
  \* "Chevron"
  <<"C","h","e","v","r","o","n">>,
  \* "ExxonMobil"
  <<"E","x","x","o","n","M","o","b","i","l">>,
  \* "TotalEnergies"
  <<"T","o","t","a","l","E","n","e","r","g","i","e","s">>,
  \* "Reliance"
  <<"R","e","l","i","a","n","c","e">>,
  \* "BASF"
  <<"B","A","S","F">>,
  \* "Volkswagen"
  <<"V","o","l","k","s","w","a","g","e","n">>,
  \* "ABB"
  <<"A","B","B">>,
  \* "Aramco"
  <<"A","r","a","m","c","o">>,
  \* "Petronas"
  <<"P","e","t","r","o","n","a","s">>,
  \* "Lucky Cement"
  <<"L","u","c","k","y"," ","C","e","m","e","n","t">>,
  \* "National Cement Company"
  <<"N","a","t","i","o","n","a","l"," ","C","e","m","e","n","t"," ","C","o","m","p","a","n","y">>
  >>

Shell ==
  \* "Shell"
  <<"S","h","e","l","l">>

Chevron ==
  \* "Chevron"
  <<"C","h","e","v","r","o","n">>

Siemens ==
  \* "Siemens"
  <<"S","i","e","m","e","n","s">>

SaudiAramco ==
  \* "Saudi Aramco"
  <<"S","a","u","d","i"," ","A","r","a","m","c","o">>

Aramco ==
  \* "Aramco"
  <<"A","r","a","m","c","o">>

Unilever ==
  \* "Unilever"
  <<"U","n","i","l","e","v","e","r">>

SCOPE_1_KEYWORDS ==
  <<
  \* "scope 1"
  <<"s","c","o","p","e"," ","1">>,
  \* "direct emissions"
  <<"d","i","r","e","c","t"," ","e","m","i","s","s","i","o","n","s">>,
  \* "stationary combustion"
  <<"s","t","a","t","i","o","n","a","r","y"," ","c","o","m","b","u","s","t","i","o","n">>,
  \* "fuel combustion"
  <<"f","u","e","l"," ","c","o","m","b","u","s","t","i","o","n">>
  >>

SCOPE_2_KEYWORDS ==
  <<
  \* "scope 2"
  <<"s","c","o","p","e"," ","2">>,
  \* "indirect emissions"
  <<"i","n","d","i","r","e","c","t"," ","e","m","i","s","s","i","o","n","s">>,
  \* "purchased electricity"
  <<"p","u","r","c","h","a","s","e","d"," ","e","l","e","c","t","r","i","c","i","t","y">>,
  \* "electricity consumption"
  <<"e","l","e","c","t","r","i","c","i","t","y"," ","c","o","n","s","u","m","p","t","i","o","n">>
  >>

SCOPE_3_KEYWORDS ==
  <<
  \* "scope 3"
  <<"s","c","o","p","e"," ","3">>,
  \* "value chain emissions"
  <<"v","a","l","u","e"," ","c","h","a","i","n"," ","e","m","i","s","s","i","o","n","s">>,
  \* "supply chain"
  <<"s","u","p","p","l","y"," ","c","h","a","i","n">>,
  \* "downstream emissions"
  <<"d","o","w","n","s","t","r","e","a","m"," ","e","m","i","s","s","i","o","n","s">>
  >>

sustainability_keywords ==
  <<
  \* "emissions"
  <<"e","m","i","s","s","i","o","n","s">>,
  \* "carbon"
  <<"c","a","r","b","o","n">>,
  \* "co2"
  <<"c","o","2">>,
  \* "greenhouse gas"
  <<"g","r","e","e","n","h","o","u","s","e"," ","g","a","s">>,
  \* "ghg"
  <<"g","h","g">>,
  \* "sustainability"
  <<"s","u","s","t","a","i","n","a","b","i","l","i","t","y">>,
  \* "environmental"
  <<"e","n","v","i","r","o","n","m","e","n","t","a","l">>,
  \* "renewable"
  <<"r","e","n","e","w","a","b","l","e">>,
  \* "energy"
  <<"e","n","e","r","g","y">>,
  \* "targets"
  <<"t","a","r","g","e","t","s">>,
  \* "goals"
  <<"g","o","a","l","s">>,
  \* "initiatives"
  <<"i","n","i","t","i","a","t","i","v","e","s">>,
  \* "reduction"
  <<"r","e","d","u","c","t","i","o","n">>
  >>

comparison_keywords ==
  <<
  \* "compare"
  <<"c","o","m","p","a","r","e">>,
  \* "comparison"
  <<"c","o","m","p","a","r","i","s","o","n">>,
  \* "versus"
  <<"v","e","r","s","u","s">>,
  \* "vs"
  <<"v","s">>,
  \* "difference"
  <<"d","i","f","f","e","r","e","n","c","e">>,
  \* "between"
  <<"b","e","t","w","e","e","n">>,
  \* "which is better"
  <<"w","h","i","c","h"," ","i","s"," ","b","e","t","t","e","r">>,
  \* "which is higher"
  <<"w","h","i","c","h"," ","i","s"," ","h","i","g","h","e","r">>,
  \* "which is lower"
  <<"w","h","i","c","h"," ","i","s"," ","l","o","w","e","r">>,
  \* "how do"
  <<"h","o","w"," ","d","o">>,
  \* "both"
  <<"b","o","t","h">>,
  \* "all"
  <<"a","l","l">>,
  \* "each"
  <<"e","a","c","h">>,
  \* "respectively"
  <<"r","e","s","p","e","c","t","i","v","e","l","y">>
  >>

MASS_UNITS ==
  <<
  \* "tCO2"
  <<"t","C","O","2">>,
  \* "tonnes"
  <<"t","o","n","n","e","s">>,
  \* "tonne"
  <<"t","o","n","n","e">>,
  \* "tons"
  <<"t","o","n","s">>,
  \* "ton"
  <<"t","o","n">>,
  \* "Mt"
  <<"M","t">>,
  \* "Gt"
  <<"G","t">>,
  \* "kg"
  <<"k","g">>,
  \* "metric tons"
  <<"m","e","t","r","i","c"," ","t","o","n","s">>,
  \* "metric ton"
  <<"m","e","t","r","i","c"," ","t","o","n">>,
  \* "million tonnes"
  <<"m","i","l","l","i","o","n"," ","t","o","n","n","e","s">>,
  \* "million tonne"
  <<"m","i","l","l","i","o","n"," ","t","o","n","n","e">>
  >>

ENERGY_UNITS ==
  <<
  \* "GWh"
  <<"G","W","h">>,
  \* "MWh"
  <<"M","W","h">>,
  \* "kWh"
  <<"k","W","h">>,
  \* "TJ"
  <<"T","J">>,
  \* "GJ"
  <<"G","J">>,
  \* "MJ"
  <<"M","J">>
  >>

PERCENT_UNITS ==
  <<
  \* "%"
  <<"%">>,
  \* "percent"
  <<"p","e","r","c","e","n","t">>,
  \* "percentage"
  <<"p","e","r","c","e","n","t","a","g","e">>
  >>

SEPARATOR_UNITS ==
  <<
  \* "tCO2"
  <<"t","C","O","2">>,
  \* "tonnes"
  <<"t","o","n","n","e","s">>,
  \* "tonne"
  <<"t","o","n","n","e">>,
  \* "tons"
  <<"t","o","n","s">>,
  \* "ton"
  <<"t","o","n">>,
  \* "Mt"
  <<"M","t">>,
  \* "Gt"
  <<"G","t">>
  >>

Q_Compare ==
  \* "Compare Shell and Chevron Scope 1 emissions"
  <<"C","o","m","p","a","r","e"," ","S","h","e","l","l"," ","a","n","d"," ","C","h","e","v","r","o","n"," ","S","c","o","p","e"," ","1"," ","e","m","i","s","s","i","o","n","s">>

Q_ShellYear ==
  \* "What are Shell emissions in 2023"
  <<"W","h","a","t"," ","a","r","e"," ","S","h","e","l","l"," ","e","m","i","s","s","i","o","n","s"," ","i","n"," ","2","0","2","3">>

Q_Overall ==
  \* "What is the overall target"
  <<"W","h","a","t"," ","i","s"," ","t","h","e"," ","o","v","e","r","a","l","l"," ","t","a","r","g","e","t">>

Q_Saudi ==
  \* "Saudi Aramco emissions"
  <<"S","a","u","d","i"," ","A","r","a","m","c","o"," ","e","m","i","s","s","i","o","n","s">>

Q_YearCmp ==
  \* "Shell emissions 2022 2023"
  <<"S","h","e","l","l"," ","e","m","i","s","s","i","o","n","s"," ","2","0","2","2"," ","2","0","2","3">>

Q_YearDup ==
  \* "Shell emissions 2023 2023"
  <<"S","h","e","l","l"," ","e","m","i","s","s","i","o","n","s"," ","2","0","2","3"," ","2","0","2","3">>

Q_YearsNoOrg ==
  \* "Emissions in 2022 and 2023"
  <<"E","m","i","s","s","i","o","n","s"," ","i","n"," ","2","0","2","2"," ","a","n","d"," ","2","0","2","3">>

Q_Both ==
  \* "Shell Chevron 2022 2023"
  <<"S","h","e","l","l"," ","C","h","e","v","r","o","n"," ","2","0","2","2"," ","2","0","2","3">>

Q_Plain ==
  \* "What are total emissions"
  <<"W","h","a","t"," ","a","r","e"," ","t","o","t","a","l"," ","e","m","i","s","s","i","o","n","s">>

Q_TwoOrgs ==
  \* "Siemens and Shell emissions"
  <<"S","i","e","m","e","n","s"," ","a","n","d"," ","S","h","e","l","l"," ","e","m","i","s","s","i","o","n","s">>

Q_OneYear ==
  \* "Emissions in 2023"
  <<"E","m","i","s","s","i","o","n","s"," ","i","n"," ","2","0","2","3">>

Q_OneOrg ==
  \* "Shell emissions"
  <<"S","h","e","l","l"," ","e","m","i","s","s","i","o","n","s">>

Q_Siemens ==
  \* "Siemens targets"
  <<"S","i","e","m","e","n","s"," ","t","a","r","g","e","t","s">>

Q_Nestle ==
  \* "Nestle emissions"
  <<"N","e","s","t","l","e"," ","e","m","i","s","s","i","o","n","s">>

T_Shell23 ==
  \* "Scope 1 emissions were 100 tCO2"
  <<"S","c","o","p","e"," ","1"," ","e","m","i","s","s","i","o","n","s"," ","w","e","r","e"," ","1","0","0"," ","t","C","O","2">>

T_Chevron23 ==
  \* "Scope 1 emissions were 80 tCO2"
  <<"S","c","o","p","e"," ","1"," ","e","m","i","s","s","i","o","n","s"," ","w","e","r","e"," ","8","0"," ","t","C","O","2">>

T_Siemens22 ==
  \* "Siemens emitted 1,250 tonnes. Energy use fell 5.5 %"
  <<"S","i","e","m","e","n","s"," ","e","m","i","t","t","e","d"," ","1",",","2","5","0"," ","t","o","n","n","e","s","."," ","E","n","e","r","g","y"," ","u","s","e"," ","f","e","l","l"," ","5",".","5"," ","%">>

T_Note ==
  \* "Targets are set. Emissions data pending"
  <<"T","a","r","g","e","t","s"," ","a","r","e"," ","s","e","t","."," ","E","m","i","s","s","i","o","n","s"," ","d","a","t","a"," ","p","e","n","d","i","n","g">>

T_Long ==
  \* "The group continued to invest in efficiency across its sites and suppliers. The group continued to invest in efficiency across its sites and suppliers. The group continued to invest in efficiency across its sites and suppliers. The group continued to invest in efficiency across its sites and suppliers. Energy use was 7 kWh"
  <<"T","h","e"," ","g","r","o","u","p"," ","c","o","n","t","i","n","u","e","d"," ","t","o"," ","i","n","v","e","s","t"," ","i","n"," ","e","f","f","i","c","i","e","n","c","y"," ","a","c","r","o","s","s"," ","i","t","s"," ","s","i","t","e","s"," ","a","n","d"," ","s","u","p","p","l","i","e","r","s","."," ","T","h","e"," ","g","r","o","u","p"," ","c","o","n","t","i","n","u","e","d"," ","t","o"," ","i","n","v","e","s","t"," ","i","n"," ","e","f","f","i","c","i","e","n","c","y"," ","a","c","r","o","s","s"," ","i","t","s"," ","s","i","t","e","s"," ","a","n","d"," ","s","u","p","p","l","i","e","r","s","."," ","T","h","e"," ","g","r","o","u","p"," ","c","o","n","t","i","n","u","e","d"," ","t","o"," ","i","n","v","e","s","t"," ","i","n"," ","e","f","f","i","c","i","e","n","c","y"," ","a","c","r","o","s","s"," ","i","t","s"," ","s","i","t","e","s"," ","a","n","d"," ","s","u","p","p","l","i","e","r","s","."," ","T","h","e"," ","g","r","o","u","p"," ","c","o","n","t","i","n","u","e","d"," ","t","o"," ","i","n","v","e","s","t"," ","i","n"," ","e","f","f","i","c","i","e","n","c","y"," ","a","c","r","o","s","s"," ","i","t","s"," ","s","i","t","e","s"," ","a","n","d"," ","s","u","p","p","l","i","e","r","s","."," ","E","n","e","r","g","y"," ","u","s","e"," ","w","a","s"," ","7"," ","k","W","h">>

SENTINEL_ANSWER ==
  \* "Information found in context"
  <<"I","n","f","o","r","m","a","t","i","o","n"," ","f","o","u","n","d"," ","i","n"," ","c","o","n","t","e","x","t">>

NO_ANSWER ==
  \* "No answer"
  <<"N","o"," ","a","n","s","w","e","r">>

UNKNOWN ==
  \* "Unknown"
  <<"U","n","k","n","o","w","n">>

ELLIPSIS ==
  \* "..."
  <<".",".",".">>
SPACE ==
  \* " "
  <<" ">>

EMISSIONS_CARBON ==
  \* " emissions carbon"
  <<" ","e","m","i","s","s","i","o","n","s"," ","c","a","r","b","o","n">>

EMISSIONS ==
  \* " emissions"
  <<" ","e","m","i","s","s","i","o","n","s">>

OVERVIEW_EMISSIONS ==
  \* " emissions carbon dioxide greenhouse gas"
  <<" ","e","m","i","s","s","i","o","n","s"," ","c","a","r","b","o","n"," ","d","i","o","x","i","d","e"," ","g","r","e","e","n","h","o","u","s","e"," ","g","a","s">>

OVERVIEW_ENERGY ==
  \* " energy consumption renewable electricity"
  <<" ","e","n","e","r","g","y"," ","c","o","n","s","u","m","p","t","i","o","n"," ","r","e","n","e","w","a","b","l","e"," ","e","l","e","c","t","r","i","c","i","t","y">>

OVERVIEW_TARGETS ==
  \* " targets goals sustainability climate"
  <<" ","t","a","r","g","e","t","s"," ","g","o","a","l","s"," ","s","u","s","t","a","i","n","a","b","i","l","i","t","y"," ","c","l","i","m","a","t","e">>

OVERVIEW_INITIATIVES ==
  \* " initiatives programs environmental"
  <<" ","i","n","i","t","i","a","t","i","v","e","s"," ","p","r","o","g","r","a","m","s"," ","e","n","v","i","r","o","n","m","e","n","t","a","l">>

QA_SPAN ==
  \* "100 tCO2"
  <<"1","0","0"," ","t","C","O","2">>

Y2022 ==
  \* "2022"
  <<"2","0","2","2">>

Y2023 ==
  \* "2023"
  <<"2","0","2","3">>

SRC_SHELL ==
  \* "shell.pdf"
  <<"s","h","e","l","l",".","p","d","f">>

SRC_CHEVRON ==
  \* "chevron.pdf"
  <<"c","h","e","v","r","o","n",".","p","d","f">>

SRC_SIEMENS ==
  \* "siemens.pdf"
  <<"s","i","e","m","e","n","s",".","p","d","f">>

CHUNK_1 ==
  \* "c1"
  <<"c","1">>

CHUNK_2 ==
  \* "c2"
  <<"c","2">>

CHUNK_3 ==
  \* "c3"
  <<"c","3">>

CHUNK_4 ==
  \* "c4"
  <<"c","4">>

TAG_SCOPE1 ==
  \* "scope_1"
  <<"s","c","o","p","e","_","1">>

VECTORSTORE_PATH ==
  \* "output/vectorstore"
  <<"o","u","t","p","u","t","/","v","e","c","t","o","r","s","t","o","r","e">>

SRC_UNILEVER ==
  \* "unilever.pdf"
  <<"u","n","i","l","e","v","e","r",".","p","d","f">>

CHUNK_5 ==
  \* "c5"
  <<"c","5">>

\* ------------------------------------------------------------ the corpus
\* saved_chunks.json, and the content of the DeepLake dataset built from it
CORPUS ==
  << [ content  |-> T_Shell23,
       metadata |-> [source |-> SRC_SHELL, company_name |-> Shell, report_year |-> Y2023,
                     page |-> 1, tags |-> <<TAG_SCOPE1>>, chunk_id |-> CHUNK_1] ],
     [ content  |-> T_Chevron23,
       metadata |-> [source |-> SRC_CHEVRON, company_name |-> Chevron, report_year |-> Y2023,
                     page |-> 1, tags |-> <<TAG_SCOPE1>>, chunk_id |-> CHUNK_2] ],
     [ content  |-> T_Siemens22,
       metadata |-> [source |-> SRC_SIEMENS, company_name |-> Siemens, report_year |-> Y2022,
                     page |-> 7, chunk_id |-> CHUNK_3] ],
     [ content  |-> T_Note,
       metadata |-> [source |-> SRC_SIEMENS, company_name |-> Siemens, chunk_id |-> CHUNK_4] ],
     [ content  |-> T_Long,
       metadata |-> [source |-> SRC_UNILEVER, company_name |-> Unilever, page |-> 12,
                     chunk_id |-> CHUNK_5] ] >>

\* ------------------------------------------------------------ the inputs
TopKs == 1..MaxTopK
Questions ==
  { Q_Compare, Q_ShellYear, Q_Overall, Q_Saudi, Q_YearCmp, Q_YearDup, Q_YearsNoOrg,
    Q_Both, Q_Plain, Q_TwoOrgs, Q_OneYear, Q_OneOrg, Q_Siemens, Q_Nestle }
Texts == {CORPUS[i].content : i \in 1..Len(CORPUS)}

\* ------------------------------------------------------ str operations
UPPER == <<"A","B","C","D","E","F","G","H","I","J","K","L","M","N","O","P","Q","R","S","T","U","V","W","X","Y","Z">>
LOWER == <<"a","b","c","d","e","f","g","h","i","j","k","l","m","n","o","p","q","r","s","t","u","v","w","x","y","z">>
DIGITS == <<"0","1","2","3","4","5","6","7","8","9">>
\* \s of the re module, as far as TLA+ strings can name it
WHITESPACE == {" ", "\t", "\n", "\r"}

Range(s) == {s[i] : i \in DOMAIN s}
IsDigit(c) == c \in Range(DIGITS)
DigitVal(c) == (CHOOSE i \in 1..10 : DIGITS[i] = c) - 1
\* \w of the re module
IsWordChar(c) == c \in Range(UPPER) \cup Range(LOWER) \cup Range(DIGITS) \cup {"_"}
Min(a, b) == IF a < b THEN a ELSE b
Max(a, b) == IF a > b THEN a ELSE b

LowerChar(c) ==
  IF c \in Range(UPPER) THEN LOWER[CHOOSE i \in 1..26 : UPPER[i] = c] ELSE c
\* str.lower()
lower(s) == [i \in 1..Len(s) |-> LowerChar(s[i])]

\* s[a:b] for 0-based a, b with 0 <= a (Python clips b to len(s))
Slice(s, a, b) == SubSeq(s, a + 1, Min(b, Len(s)))

\* needle in hay
Contains(hay, needle) ==
  \E i \in 1..(Len(hay) - Len(needle) + 1) : SubSeq(hay, i, i + Len(needle) - 1) = needle

\* str.replace(old, new) for a one-character old
replace(s, old, new) == [i \in 1..Len(s) |-> IF s[i] = old THEN new ELSE s[i]]

\* str.strip()
RECURSIVE lstrip(_)
lstrip(s) == IF s # <<>> /\ Head(s) \in WHITESPACE THEN lstrip(Tail(s)) ELSE s
RECURSIVE rstrip(_)
rstrip(s) ==
  IF s # <<>> /\ s[Len(s)] \in WHITESPACE THEN rstrip(SubSeq(s, 1, Len(s) - 1)) ELSE s
strip(s) == rstrip(lstrip(s))

\* str.split(sep) for a one-character sep: the pieces between separators, empty ones kept
\* the position of the first sep at or after i, Len(s) + 1 when there is none
NextSep(s, sep, i) ==
  IF \E j \in i..Len(s) : s[j] = sep
  THEN CHOOSE j \in {k \in i..Len(s) : s[k] = sep} :
         \A k \in {k \in i..Len(s) : s[k] = sep} : j <= k
  ELSE Len(s) + 1

RECURSIVE SplitFrom(_, _, _)
SplitFrom(s, sep, i) ==
  IF NextSep(s, sep, i) > Len(s) THEN <<SubSeq(s, i, Len(s))>>
  ELSE <<SubSeq(s, i, NextSep(s, sep, i) - 1)>> \o SplitFrom(s, sep, NextSep(s, sep, i) + 1)
split_on(s, sep) == SplitFrom(s, sep, 1)

\* str.split(): the maximal runs of non-whitespace
RECURSIVE WordsFrom(_, _, _)
WordsFrom(s, i, cur) ==
  IF i > Len(s) THEN (IF cur = <<>> THEN <<>> ELSE <<cur>>)
  ELSE IF s[i] \in WHITESPACE
       THEN (IF cur = <<>> THEN <<>> ELSE <<cur>>) \o WordsFrom(s, i + 1, <<>>)
       ELSE WordsFrom(s, i + 1, Append(cur, s[i]))
split(s) == WordsFrom(s, 1, <<>>)

\* dict: {} and dict.get(key, default)
EmptyDict == [k \in {} |-> k]
Get(d, key, default) == IF key \in DOMAIN d THEN d[key] ELSE default

\* ------------------------------------------------------ entity extractor
EMISSION_SCOPES ==
  << [scope |-> <<"s","c","o","p","e","_","1">>, keywords |-> SCOPE_1_KEYWORDS],
     [scope |-> <<"s","c","o","p","e","_","2">>, keywords |-> SCOPE_2_KEYWORDS],
     [scope |-> <<"s","c","o","p","e","_","3">>, keywords |-> SCOPE_3_KEYWORDS] >>
SCOPE_UNKNOWN == <<"u","n","k","n","o","w","n">>

\* re.findall(r'\b(20\d{2}|19\d{2})\b', s): a match starts at i (1-based)
YearAt(s, i) ==
  /\ i + 3 <= Len(s)
  /\ \/ s[i] = "2" /\ s[i+1] = "0"
     \/ s[i] = "1" /\ s[i+1] = "9"
  /\ IsDigit(s[i+2]) /\ IsDigit(s[i+3])
  /\ (i = 1 \/ ~IsWordChar(s[i-1]))
  /\ (i + 3 = Len(s) \/ ~IsWordChar(s[i+4]))
RECURSIVE FindYears(_, _)
FindYears(s, i) ==
  IF i > Len(s) THEN <<>>
  ELSE IF YearAt(s, i) THEN <<SubSeq(s, i, i + 3)>> \o FindYears(s, i + 4)
  ELSE FindYears(s, i + 1)

RECURSIVE FirstScope(_, _)
FirstScope(question_lower, n) ==
  IF n > Len(EMISSION_SCOPES) THEN SCOPE_UNKNOWN
  ELSE IF \E j \in 1..Len(EMISSION_SCOPES[n].keywords) :
            Contains(question_lower, EMISSION_SCOPES[n].keywords[j])
       THEN EMISSION_SCOPES[n].scope
       ELSE FirstScope(question_lower, n + 1)

\* variant: a name found inside a longer name that is also found is left out
DetectedCompanies_LongestOnly(question_lower) ==
  SelectSeq(KNOWN_COMPANIES, LAMBDA company :
    /\ Contains(question_lower, lower(company))
    /\ ~\E j \in 1..Len(KNOWN_COMPANIES) :
          /\ KNOWN_COMPANIES[j] # company
          /\ Contains(lower(KNOWN_COMPANIES[j]), lower(company))
          /\ Contains(question_lower, lower(KNOWN_COMPANIES[j])))

\* for company in self.KNOWN_COMPANIES: if company.lower() in question_lower:
\* companies.append(company)
DetectedCompanies(question_lower) ==
  SelectSeq(KNOWN_COMPANIES, LAMBDA company : Contains(question_lower, lower(company)))

_extract_entities_from_question(question) ==
  LET question_lower == lower(question) IN
  [ companies |-> DetectedCompanies(question_lower),
    years |-> FindYears(question, 1),
    emission_scope |-> FirstScope(question_lower, 1),
    keywords |-> SelectSeq(sustainability_keywords, LAMBDA kw : Contains(question_lower, kw)) ]

\* ----------------------------------------------------------- filter builder
\* variant: a field set from the first entity of a list of any length
_build_metadata_filters_AtLeastOne(entities) ==
  LET company == IF Len(entities.companies) # 0
                 THEN "company_name" :> entities.companies[1] ELSE EmptyDict
      year    == IF Len(entities.years) # 0
                 THEN "report_year" :> entities.years[1] ELSE EmptyDict
  IN company @@ year

_build_metadata_filters(entities) ==
  LET company == IF Len(entities.companies) # 0 /\ Len(entities.companies) = 1
                 THEN "company_name" :> entities.companies[1] ELSE EmptyDict
      year    == IF Len(entities.years) # 0 /\ Len(entities.years) = 1
                 THEN "report_year" :> entities.years[1] ELSE EmptyDict
  IN company @@ year

\* ------------------------------------------------------ question classifier
\* variant: multiple entities taken to mean more than two
_is_comparison_question_MoreThanTwo(question) ==
  LET question_lower == lower(question)
      has_comparison_keywords ==
        \E j \in 1..Len(comparison_keywords) : Contains(question_lower, comparison_keywords[j])
      entities == _extract_entities_from_question(question)
      has_multiple_entities == Len(entities.companies) > 2 \/ Len(entities.years) > 2
  IN has_comparison_keywords \/ has_multiple_entities

\* variant: a phrase counts only where it stands as whole words of the question
_is_comparison_question_WholeWords(question) ==
  LET question_lower == lower(question)
      has_comparison_keywords ==
        \E j \in 1..Len(comparison_keywords) :
          Contains(<<" ">> \o question_lower \o <<" ">>,
                   <<" ">> \o comparison_keywords[j] \o <<" ">>)
      entities == _extract_entities_from_question(question)
      has_multiple_entities == Len(entities.companies) >= 2 \/ Len(entities.years) >= 2
  IN has_comparison_keywords \/ has_multiple_entities

_is_comparison_question(question) ==
  LET question_lower == lower(question)
      has_comparison_keywords ==
        \E j \in 1..Len(comparison_keywords) : Contains(question_lower, comparison_keywords[j])
      entities == _extract_entities_from_question(question)
      has_multiple_entities == Len(entities.companies) >= 2 \/ Len(entities.years) >= 2
  IN has_comparison_keywords \/ has_multiple_entities

\* ---------------------------------------------------- numeric fact extractor
FIXED == 100

\* end (1-based, inclusive) of the run of digits that starts at i (s[i] is a digit)
RECURSIVE DigitRunEnd(_, _)
DigitRunEnd(s, i) ==
  IF i + 1 <= Len(s) /\ IsDigit(s[i+1]) THEN DigitRunEnd(s, i + 1) ELSE i

\* (?:\.\d+)? after position e
FractionEnd(s, e) ==
  IF e + 2 <= Len(s) /\ s[e+1] = "." /\ IsDigit(s[e+2]) THEN DigitRunEnd(s, e + 2) ELSE e

\* (?:[eE][+-]?\d+)? after position e
ExponentEnd(s, e) ==
  IF e + 2 <= Len(s) /\ s[e+1] \in {"e", "E"} /\ IsDigit(s[e+2]) THEN DigitRunEnd(s, e + 2)
  ELSE IF e + 3 <= Len(s) /\ s[e+1] \in {"e", "E"} /\ s[e+2] \in {"+", "-"} /\ IsDigit(s[e+3])
       THEN DigitRunEnd(s, e + 3)
  ELSE e

\* (\d+(?:\.\d+)?(?:[eE][+-]?\d+)?) at i: the end of group 1, 0 when it does not match.
\* Every quantifier is greedy and no shorter choice lets the rest of the pattern match
\* (no unit starts with a digit, ".", "e" or whitespace), so the longest match is the match.
DecimalNumberEnd(s, i) ==
  IF i <= Len(s) /\ IsDigit(s[i]) THEN ExponentEnd(s, FractionEnd(s, DigitRunEnd(s, i))) ELSE 0

\* (?:,\d{3})* after position e
RECURSIVE GroupsEnd(_, _)
GroupsEnd(s, e) ==
  IF e + 4 <= Len(s) /\ s[e+1] = "," /\ IsDigit(s[e+2]) /\ IsDigit(s[e+3]) /\ IsDigit(s[e+4])
  THEN GroupsEnd(s, e + 4) ELSE e

\* (\d{1,3}(?:,\d{3})*(?:\.\d+)?) at i: the end of group 1, 0 when it does not match.
\* \d{1,3} takes at most three digits; when a fourth digit follows, neither the taken
\* three nor fewer can be followed by a separator, a fraction or a unit.
SeparatedNumberEnd(s, i) ==
  IF i <= Len(s) /\ IsDigit(s[i])
  THEN FractionEnd(s, GroupsEnd(s, Min(DigitRunEnd(s, i), i + 2)))
  ELSE 0

\* \s* from position p on: the first position that is not whitespace
RECURSIVE SkipSpace(_, _)
SkipSpace(s, p) == IF p <= Len(s) /\ s[p] \in WHITESPACE THEN SkipSpace(s, p + 1) ELSE p

\* (u1|u2|...) at p under re.IGNORECASE: the first alternative that matches, 0 when none does.
\* An alternative x? is written out as the two alternatives "xs", "x" in that order.
RECURSIVE UnitAt(_, _, _, _)
UnitAt(s, p, units, n) ==
  IF n > Len(units) THEN 0
  ELSE IF p + Len(units[n]) - 1 <= Len(s)
          /\ lower(SubSeq(s, p, p + Len(units[n]) - 1)) = lower(units[n])
       THEN n
       ELSE UnitAt(s, p, units, n + 1)

\* the four patterns of _extract_numerical_values, in order
patterns ==
  << [number |-> "decimal",   units |-> MASS_UNITS],
     [number |-> "decimal",   units |-> ENERGY_UNITS],
     [number |-> "decimal",   units |-> PERCENT_UNITS],
     [number |-> "separated", units |-> SEPARATOR_UNITS] >>

\* the match record of a number ending at numEnd whose unit would start at p
MatchFrom(units, s, i, numEnd, p, u) ==
  [start |-> i, numEnd |-> numEnd, unitStart |-> p,
   end |-> IF u = 0 THEN 0 ELSE p + Len(units[u]) - 1]
MatchUnit(units, s, i, numEnd, p) ==
  MatchFrom(units, s, i, numEnd, p, IF numEnd = 0 THEN 0 ELSE UnitAt(s, p, units, 1))

\* re.match of pattern at i: [start, numEnd, unitStart, end], end = 0 when there is no match
MatchAt(pattern, s, i, numEnd) == MatchUnit(pattern.units, s, i, numEnd, SkipSpace(s, numEnd + 1))
NumberEnd(pattern, s, i) ==
  IF pattern.number = "decimal" THEN DecimalNumberEnd(s, i) ELSE SeparatedNumberEnd(s, i)

\* re.finditer(pattern, text): the non-overlapping matches, leftmost first
\* every pattern starts with \d: the scan goes on at the first digit at or after i
\* (Len(s) + 1 when there is none)
NextDigit(s, i) ==
  IF \E j \in i..Len(s) : IsDigit(s[j])
  THEN CHOOSE j \in {k \in i..Len(s) : IsDigit(s[k])} :
         \A k \in {k \in i..Len(s) : IsDigit(s[k])} : j <= k
  ELSE Len(s) + 1

RECURSIVE FindIter(_, _, _)
FindIterStep(pattern, s, i, m) ==
  IF m.end # 0 THEN <<m>> \o FindIter(pattern, s, NextDigit(s, m.end + 1))
  ELSE FindIter(pattern, s, NextDigit(s, i + 1))
FindIter(pattern, s, i) ==
  IF i > Len(s) THEN <<>>
  ELSE FindIterStep(pattern, s, i, MatchAt(pattern, s, i, NumberEnd(pattern, s, i)))

RECURSIVE Pow10(_)
Pow10(n) == IF n = 0 THEN 1 ELSE 10 * Pow10(n - 1)

\* int(digits)
RECURSIVE IntOfDigits(_)
IntOfDigits(ds) ==
  IF ds = <<>> THEN 0 ELSE 10 * IntOfDigits(SubSeq(ds, 1, Len(ds) - 1)) + DigitVal(ds[Len(ds)])

\* mantissa * 10^(p - FIXED digits), in units of 1/FIXED; exact when p >= 0, truncated otherwise
Scaled(mant, p) == IF p >= 0 THEN mant * Pow10(p) ELSE mant \div Pow10(0 - p)

\* the exponent of value_str after position frEnd (the end of the mantissa), signed
ExponentOf(value_str, frEnd) ==
  IF frEnd = Len(value_str) THEN 0
  ELSE IF value_str[frEnd + 2] = "-"
       THEN 0 - IntOfDigits(SubSeq(value_str, frEnd + 3, Len(value_str)))
  ELSE IF value_str[frEnd + 2] = "+"
       THEN IntOfDigits(SubSeq(value_str, frEnd + 3, Len(value_str)))
  ELSE IntOfDigits(SubSeq(value_str, frEnd + 2, Len(value_str)))

FloatOfParts(value_str, intEnd, frEnd) ==
  Scaled(IntOfDigits(SubSeq(value_str, 1, intEnd) \o SubSeq(value_str, intEnd + 2, frEnd)),
         2 - Max(0, frEnd - intEnd - 1) + ExponentOf(value_str, frEnd))
FloatOfInt(value_str, intEnd) == FloatOfParts(value_str, intEnd, FractionEnd(value_str, intEnd))

\* float(value_str) for value_str = digits [. digits] [e [+-] digits], in units of 1/FIXED
\* (FIXED = 10^2).  Exact whenever the value is a multiple of 1/FIXED; truncated otherwise.
float(value_str) == FloatOfInt(value_str, DigitRunEnd(value_str, 1))

\* one NumericFact from a match
Fact(text, m) ==
  [ value    |-> float(SelectSeq(SubSeq(text, m.start, m.numEnd), LAMBDA c : c # ",")),
    unit     |-> SubSeq(text, m.unitStart, m.end),
    raw_text |-> SubSeq(text, m.start, m.end),
    context  |-> Slice(text, Max(0, (m.start - 1) - 50), m.end + 50) ]

FactsOfMatches(text, ms) == [j \in 1..Len(ms) |-> Fact(text, ms[j])]

RECURSIVE FactsOfPatterns(_, _)
FactsOfPatterns(text, n) ==
  IF n > Len(patterns) THEN <<>>
  ELSE FactsOfMatches(text, FindIter(patterns[n], text, NextDigit(text, 1))) \o FactsOfPatterns(text, n + 1)

\* the matches the two loops go through, in the order their facts are appended
RECURSIVE MatchesOfPatterns(_, _)
MatchesOfPatterns(text, n) ==
  IF n > Len(patterns) THEN <<>>
  ELSE FindIter(patterns[n], text, NextDigit(text, 1)) \o MatchesOfPatterns(text, n + 1)

\* variant: a fact equal to an earlier one is dropped
RECURSIVE WithoutRepeats(_, _)
WithoutRepeats(facts, n) ==
  IF n > Len(facts) THEN <<>>
  ELSE (IF \E i \in 1..(n - 1) : facts[i] = facts[n] THEN <<>> ELSE <<facts[n]>>)
       \o WithoutRepeats(facts, n + 1)
_extract_numerical_values_Deduplicated(text) == WithoutRepeats(FactsOfPatterns(text, 1), 1)

_extract_numerical_values(text) == FactsOfPatterns(text, 1)

\* ------------------------------------------------------ answer synthesizer
\* set(s.lower().split())
WordSet(s) == Range(split(lower(s)))

\* the loop of _extract_simple_answer over sentences[n..]: the best sentence so far
\* variant: a sentence that shares as many words as the best one so far replaces it
RECURSIVE BestSentence_LastOnTie(_, _, _, _, _)
BestSentence_LastOnTie(question_words, sentences, n, best_sentence, max_overlap) ==
  IF n > Len(sentences) THEN best_sentence
  ELSE IF Cardinality(question_words \cap WordSet(sentences[n])) >= max_overlap
       THEN BestSentence_LastOnTie(question_words, sentences, n + 1, strip(sentences[n]),
                                   Cardinality(question_words \cap WordSet(sentences[n])))
       ELSE BestSentence_LastOnTie(question_words, sentences, n + 1, best_sentence, max_overlap)

RECURSIVE BestSentence(_, _, _, _, _)
BestSentence(question_words, sentences, n, best_sentence, max_overlap) ==
  IF n > Len(sentences) THEN best_sentence
  ELSE LET overlap == Cardinality(question_words \cap WordSet(sentences[n])) IN
       IF overlap > max_overlap
       THEN BestSentence(question_words, sentences, n + 1, strip(sentences[n]), overlap)
       ELSE BestSentence(question_words, sentences, n + 1, best_sentence, max_overlap)

_extract_simple_answer(question, context) ==
  LET best_sentence == BestSentence(WordSet(question), split_on(context, "."), 1, <<>>, 0)
  IN IF best_sentence # <<>> THEN best_sentence ELSE SENTINEL_ANSWER

\* ---------------------------------------------------- comparison aggregator
\* all_values: the numeric facts of all comparison points, in order, tagged with their point
RECURSIVE AllValues(_, _)
AllValues(comparison_results, n) ==
  IF n > Len(comparison_results) THEN <<>>
  ELSE LET r  == comparison_results[n]
           nv == Get(r, "numerical_values", <<>>)
       IN [j \in 1..Len(nv) |->
             [ value   |-> nv[j].value,
               unit    |-> nv[j].unit,
               company |-> Get(r, "company", UNKNOWN),
               year    |-> Get(r, "year", UNKNOWN),
               context |-> Get(nv[j], "context", <<>>) ]]
          \o AllValues(comparison_results, n + 1)

\* the keys of unit_groups in insertion order: each lower-cased unit at its first occurrence
RECURSIVE UnitOrder(_, _, _)
UnitOrder(all_values, n, seen) ==
  IF n > Len(all_values) THEN seen
  ELSE LET unit == lower(all_values[n].unit) IN
       UnitOrder(all_values, n + 1,
                 IF \E j \in 1..Len(seen) : seen[j] = unit THEN seen ELSE Append(seen, unit))

\* variant: the values are grouped by the unit as written
UnitGroup_CaseSensitive(all_values, unit) ==
  SelectSeq(all_values, LAMBDA val : val.unit = unit)

\* unit_groups[unit]
UnitGroup(all_values, unit) == SelectSeq(all_values, LAMBDA val : lower(val.unit) = unit)

\* variant: the sort without reverse=True
RECURSIVE InsertAscending(_, _)
InsertAscending(sorted_values, val) ==
  IF sorted_values = <<>> THEN <<val>>
  ELSE IF Head(sorted_values).value <= val.value
       THEN <<Head(sorted_values)>> \o InsertAscending(Tail(sorted_values), val)
       ELSE <<val>> \o sorted_values

\* sorted(values, key=value, reverse=True): stable, equal values keep their order
RECURSIVE InsertDescending(_, _)
InsertDescending(sorted_values, val) ==
  IF sorted_values = <<>> THEN <<val>>
  ELSE IF Head(sorted_values).value >= val.value
       THEN <<Head(sorted_values)>> \o InsertDescending(Tail(sorted_values), val)
       ELSE <<val>> \o sorted_values
RECURSIVE SortedDescending(_, _)
SortedDescending(values, n) ==
  IF n = 0 THEN <<>> ELSE InsertDescending(SortedDescending(values, n - 1), values[n])

\* variant: the percentage taken of the highest value
PercentageDifference_OfHighest(highest, lowest) ==
  IF lowest > 0 THEN [num |-> (highest - lowest) * 100, den |-> highest]
  ELSE [num |-> 0, den |-> 1]

\* variant: the division without its guard
PercentageDifference_Unguarded(highest, lowest) ==
  [num |-> (highest - lowest) * 100, den |-> lowest]

\* ((highest - lowest) / lowest * 100) if lowest > 0 else 0, as an exact fraction
PercentageDifference(highest, lowest) ==
  IF lowest > 0 THEN [num |-> (highest - lowest) * 100, den |-> lowest]
  ELSE [num |-> 0, den |-> 1]

\* the comparison of one unit group with at least two values
Comparison(unit, values) ==
  LET sorted_values == SortedDescending(values, Len(values))
      highest == sorted_values[1]
      lowest  == sorted_values[Len(sorted_values)]
  IN [ unit    |-> unit,
       highest |-> [value |-> highest.value, company |-> highest.company, year |-> highest.year],
       lowest  |-> [value |-> lowest.value, company |-> lowest.company, year |-> lowest.year],
       difference |-> highest.value - lowest.value,
       percentage_difference |-> PercentageDifference(highest.value, lowest.value) ]

RECURSIVE NumericalComparisons(_, _, _)
NumericalComparisons(all_values, units, n) ==
  IF n > Len(units) THEN <<>>
  ELSE LET values == UnitGroup(all_values, units[n]) IN
       (IF Len(values) >= 2 THEN <<Comparison(units[n], values)>> ELSE <<>>)
       \o NumericalComparisons(all_values, units, n + 1)

\* variant: the summary is built from the metric computed last
MainComparison_Last(numerical_comparisons) ==
  numerical_comparisons[Len(numerical_comparisons)]

\* main_comparison = metrics["numerical_comparisons"][0]
MainComparison(numerical_comparisons) == numerical_comparisons[1]

\* the f-string of the summary, as its parts
Summary(main_comparison) ==
  << "Highest: ", main_comparison.highest.company, " (", main_comparison.highest.value, " ",
     main_comparison.unit, "), Lowest: ", main_comparison.lowest.company, " (",
     main_comparison.lowest.value, " ", main_comparison.unit, ")" >>

_calculate_comparison_metrics(comparison_results) ==
  IF Len(comparison_results) < 2 THEN [error |-> "Need at least 2 results for comparison"]
  ELSE LET all_values == AllValues(comparison_results, 1)
           numerical_comparisons ==
             NumericalComparisons(all_values, UnitOrder(all_values, 1, <<>>), 1)
       IN [ total_comparisons |-> Len(comparison_results),
            numerical_comparisons |-> numerical_comparisons,
            summary |-> IF numerical_comparisons # <<>>
                        THEN Summary(MainComparison(numerical_comparisons))
                        ELSE <<>> ]

\* ------------------------------------------------------------------ tables
\* The pure functions above, evaluated once for every input of the model.
EntitiesOf == [question \in Questions |-> _extract_entities_from_question(question)]
IsComparison == [question \in Questions |-> _is_comparison_question(question)]
NumericalValuesOf == [text \in Texts |-> _extract_numerical_values(text)]
SimpleAnswerOf ==
  [question \in Questions, text \in Texts |-> _extract_simple_answer(question, text)]

\* langchain Document(page_content, metadata) of a chunk
Document(chunk) == [page_content |-> chunk.content, metadata |-> chunk.metadata]

\* ------------------------------------------------- vector-store collaborator
\* variant: a search that is given no filter finds nothing
Matching_NothingWithoutFilter(filters) ==
  { i \in 1..Len(CORPUS) :
      /\ DOMAIN filters # {}
      /\ \A key \in DOMAIN filters :
           key \in DOMAIN CORPUS[i].metadata /\ CORPUS[i].metadata[key] = filters[key] }

\* DeepLake.similarity_search(query, k, filter): the chunks whose metadata carry every
\* key of the filter with its value
Matching(filters) ==
  { i \in 1..Len(CORPUS) :
      \A key \in DOMAIN filters :
        key \in DOMAIN CORPUS[i].metadata /\ CORPUS[i].metadata[key] = filters[key] }

\* what one similarity_search call can do: raise, or return the k most similar matching
\* chunks; the embedding decides which and in which order
SearchOutcomes(k, filters) ==
  LET M == Matching(filters)
      n == Min(k, Cardinality(M))
  IN {[raised |-> TRUE, docs |-> <<>>]}
     \cup { [raised |-> FALSE, docs |-> [j \in 1..n |-> Document(CORPUS[s[j]])]] :
              s \in {f \in [1..n -> M] : \A a, b \in 1..n : a # b => f[a] # f[b]} }

\* variant: a load that leaves a handle whether or not the dataset could be opened
load_vectorstore_KeepsHandle(d, handle) == "DeepLake"

\* VectorStoreManager.load_vectorstore on disk state d: the handle it leaves, given the old one
load_vectorstore(d, handle) == IF d.store = "ok" THEN "DeepLake" ELSE handle

\* variant: every query opens the dataset again
LoadIfUnset_Always(d, handle) == [handle |-> load_vectorstore(d, handle), loads |-> 1]

\* `if not self.vectorstore: if not self.load_vectorstore(): return ...` at the head of
\* query_vectorstore and get_vectorstore_info: the handle that is left and the number of
\* calls of load_vectorstore
LoadIfUnset(d, handle) ==
  IF handle = "None" THEN [handle |-> load_vectorstore(d, handle), loads |-> 1]
  ELSE [handle |-> handle, loads |-> 0]

\* VectorStoreManager.create_vectorstore on disk state d: whether it builds the dataset
create_vectorstore(d) == d.chunks = "present" /\ d.buildOk

\* the try block of VectorStoreManager.query_vectorstore, the handle being set
query_vectorstore(outcome) == IF outcome.raised THEN <<>> ELSE outcome.docs

\* what a retrieval asked and got (the chunk ids, in order), for the history variable call
Retrieval(query, k, filters, outcome) ==
  [query |-> query, k |-> k, filters |-> filters, raised |-> outcome.raised,
   returned |-> [j \in 1..Len(query_vectorstore(outcome)) |->
                   query_vectorstore(outcome)[j].metadata.chunk_id]]

\* --------------------------------------------------------- QA collaborator
\* what one call of the transformers pipeline can do
QaOutcomes ==
  { [kind |-> "raise"],
    [kind |-> "dict", answer |-> QA_SPAN, score |-> 90],
    [kind |-> "list", answer |-> QA_SPAN, score |-> 90] }

\* ------------------------------------------------------- standard question
\* page_content[:300] + "..." if len(page_content) > 300 else page_content
ContextOf(content) ==
  IF Len(content) > 300 THEN Slice(content, 0, 300) \o ELLIPSIS ELSE content

\* the body of the loop over results (try ... except Exception: continue): the answer
\* records it appends, none when it raises
\* variant: the facts are extracted from the context kept in the record
NumericalValuesOfResult_FromContext(result_) ==
  _extract_numerical_values(ContextOf(result_.page_content))

\* numerical_values = self._extract_numerical_values(result.page_content)
NumericalValuesOfResult(result_) ==
  NumericalValuesOf[result_.page_content]

ProcessResult(pipeline, question, result_, qa) ==
  IF pipeline = "None"
  THEN <<>>   \* qa_result is read unassigned: UnboundLocalError, caught, passage skipped
  ELSE IF qa.kind = "raise" THEN <<>>
  ELSE LET from_model == qa.kind = "list"
           content == result_.page_content
       IN << [ answer     |-> IF from_model THEN qa.answer
                              ELSE SimpleAnswerOf[question, content],
               confidence |-> IF from_model THEN qa.score ELSE 50,
               context    |-> ContextOf(content),
               source     |-> Get(result_.metadata, "source", UNKNOWN),
               company    |-> Get(result_.metadata, "company_name", UNKNOWN),
               year       |-> Get(result_.metadata, "report_year", UNKNOWN),
               page       |-> Get(result_.metadata, "page", UNKNOWN),
               tags       |-> Get(result_.metadata, "tags", <<>>),
               numerical_values |-> NumericalValuesOfResult(result_),
               chunk_id   |-> Get(result_.metadata, "chunk_id", UNKNOWN) ] >>

RECURSIVE ProcessResults(_, _, _, _, _)
ProcessResults(pipeline, question, results, qa, n) ==
  IF n > Len(results) THEN <<>>
  ELSE ProcessResult(pipeline, question, results[n], qa[n])
       \o ProcessResults(pipeline, question, results, qa, n + 1)

\* variant: the no-results record without its answer field
NoResultsRecord_NoAnswer(question, entities, filters) ==
  [ question |-> question,
    entities_detected |-> entities,
    filters_applied   |-> filters,
    total_results     |-> 0 ]

\* the record returned when the retrieval gave no passage
NoResultsRecord(question, entities, filters) ==
  [ question |-> question,
    answer   |-> "No relevant information found in the knowledge base",
    entities_detected |-> entities,
    filters_applied   |-> filters,
    total_results     |-> 0 ]

\* returns [record, retrievals]
_handle_standard_question(pipeline, question, top_k, outcome, qa) ==
  LET entities == EntitiesOf[question]
      filters  == _build_metadata_filters(entities)
      results  == query_vectorstore(outcome)
      record   ==
        IF results = <<>>
        THEN NoResultsRecord(question, entities, filters)
        ELSE [ question |-> question,
               answers  |-> ProcessResults(pipeline, question, results, qa, 1),
               entities_detected |-> entities,
               filters_applied   |-> filters,
               total_results     |-> Len(results) ]
  IN [record |-> record, retrievals |-> <<Retrieval(question, top_k, filters, outcome)>>]

\* ------------------------------------------------------ comparison question
\* filters and query of the retrieval for one company (organization-comparison mode)
\* variant: the filter of a company without the first detected year
CompanyFilters_CompanyOnly(company, years) ==
  "company_name" :> company

CompanyFilters(company, years) ==
  ("company_name" :> company) @@ (IF years # <<>> THEN "report_year" :> years[1] ELSE EmptyDict)
CompanyQuery(company, emission_scope) ==
  company \o SPACE \o replace(emission_scope, "_", " ") \o EMISSIONS_CARBON

\* filters and query of the retrieval for one year (year-comparison mode)
YearFilters(company, year) == [company_name |-> company, report_year |-> year]
YearQuery(company, year, emission_scope) ==
  company \o SPACE \o year \o SPACE \o replace(emission_scope, "_", " ") \o EMISSIONS

\* variant: the least similar of the passages retrieved is taken
BestResult_Last(results) == results[Len(results)]

\* best_result = results[0]
BestResult(results) == results[1]

\* the comparison point of one company, none when its retrieval returned nothing
CompanyPoint(company, emission_scope, results) ==
  IF results = <<>> THEN <<>>
  ELSE LET best_result == BestResult(results) IN
       << [ company  |-> company,
            year     |-> Get(best_result.metadata, "report_year", UNKNOWN),
            emission_scope |-> emission_scope,
            context  |-> Slice(best_result.page_content, 0, 200),
            numerical_values |-> NumericalValuesOf[best_result.page_content],
            source   |-> Get(best_result.metadata, "source", UNKNOWN),
            page     |-> Get(best_result.metadata, "page", UNKNOWN),
            chunk_id |-> Get(best_result.metadata, "chunk_id", UNKNOWN) ] >>

\* the comparison point of one year, none when its retrieval returned nothing
YearPoint(company, year, emission_scope, results) ==
  IF results = <<>> THEN <<>>
  ELSE LET best_result == BestResult(results) IN
       << [ company  |-> company,
            year     |-> year,
            emission_scope |-> emission_scope,
            context  |-> Slice(best_result.page_content, 0, 200),
            numerical_values |-> NumericalValuesOf[best_result.page_content],
            source   |-> Get(best_result.metadata, "source", UNKNOWN),
            chunk_id |-> Get(best_result.metadata, "chunk_id", UNKNOWN) ] >>

\* variant: two years or more take the comparison away from the companies
CompareAcrossCompanies_UnlessYears(companies, years) ==
  Len(companies) >= 2 /\ Len(years) < 2

\* if len(companies) >= 2: the branch that compares across companies; the years are not
\* looked at
CompareAcrossCompanies(companies, years) == Len(companies) >= 2

\* variant: two years without a company are not enough either
InsufficientEntities_YearsNeedCompany(companies, years) ==
  Len(companies) < 2 /\ (Len(years) < 2 \/ companies = <<>>)

\* if len(companies) < 2 and len(years) < 2: the guard of the comparison handler
InsufficientEntities(companies, years) == Len(companies) < 2 /\ Len(years) < 2

\* the retrievals a comparison question issues: [query, k, filters] in order
ComparisonRequests(question) ==
  LET entities  == EntitiesOf[question]
      companies == entities.companies
      years     == entities.years
      emission_scope == entities.emission_scope
  IN IF InsufficientEntities(companies, years) THEN <<>>
     ELSE IF CompareAcrossCompanies(companies, years)
     THEN [n \in 1..Len(companies) |->
             [query |-> CompanyQuery(companies[n], emission_scope), k |-> 3,
              filters |-> CompanyFilters(companies[n], years)]]
     ELSE IF Len(years) >= 2 /\ companies # <<>>
     THEN [n \in 1..Len(years) |->
             [query |-> YearQuery(companies[1], years[n], emission_scope), k |-> 3,
              filters |-> YearFilters(companies[1], years[n])]]
     ELSE <<>>

\* variant: the loop over the entities ends at the first retrieval that raised
RECURSIVE ComparisonPoints_AbortsOnFailure(_, _, _, _)
ComparisonPoints_AbortsOnFailure(by_company, entities, outcomes, n) ==
  IF n > Len(outcomes) \/ outcomes[n].raised THEN <<>>
  ELSE (IF by_company
        THEN CompanyPoint(entities.companies[n], entities.emission_scope,
                          query_vectorstore(outcomes[n]))
        ELSE YearPoint(entities.companies[1], entities.years[n], entities.emission_scope,
                       query_vectorstore(outcomes[n])))
       \o ComparisonPoints_AbortsOnFailure(by_company, entities, outcomes, n + 1)

RECURSIVE ComparisonPoints(_, _, _, _)
ComparisonPoints(by_company, entities, outcomes, n) ==
  IF n > Len(outcomes) THEN <<>>
  ELSE (IF by_company
        THEN CompanyPoint(entities.companies[n], entities.emission_scope,
                          query_vectorstore(outcomes[n]))
        ELSE YearPoint(entities.companies[1], entities.years[n], entities.emission_scope,
                       query_vectorstore(outcomes[n])))
       \o ComparisonPoints(by_company, entities, outcomes, n + 1)

\* the record returned when the question names fewer than two companies and two years
InsufficientEntitiesRecord(question, entities) ==
  [ question |-> question,
    error    |-> "Comparison requires at least 2 companies or 2 years",
    entities_detected |-> entities ]

\* returns [record, retrievals]; outcomes[n] is what the n-th retrieval did
_handle_comparison_question(question, outcomes) ==
  LET entities  == EntitiesOf[question]
      companies == entities.companies
      years     == entities.years
      requests  == ComparisonRequests(question)
  IN IF InsufficientEntities(companies, years)
     THEN [ record |-> InsufficientEntitiesRecord(question, entities), retrievals |-> <<>> ]
     ELSE LET comparison_results ==
                ComparisonPoints(CompareAcrossCompanies(companies, years), entities, outcomes, 1)
          IN [ record |-> [ question |-> question,
                            comparison_type |-> IF Len(companies) >= 2 THEN "company" ELSE "year",
                            comparison_results |-> comparison_results,
                            comparison_metrics |-> _calculate_comparison_metrics(comparison_results),
                            entities_detected |-> entities ],
               retrievals |-> [n \in 1..Len(requests) |->
                                 Retrieval(requests[n].query, requests[n].k,
                                           requests[n].filters, outcomes[n])] ]

\* ------------------------------------------------------------ answer_question
\* the sequences of outcomes of a sequence of retrievals
SearchOutcomeSeqs(requests) ==
  LET all == UNION {SearchOutcomes(requests[n].k, requests[n].filters) : n \in 1..Len(requests)}
  IN { s \in [1..Len(requests) -> all] :
         \A n \in 1..Len(requests) : s[n] \in SearchOutcomes(requests[n].k, requests[n].filters) }

\* what the QA pipeline did on each of n passages; it is not called when it is None
QaSeqs(pipeline, n) ==
  IF pipeline = "None" THEN {[j \in 1..n |-> [kind |-> "not called"]]}
  ELSE [1..n -> QaOutcomes]

\* what the collaborators can do during answer_question(question, top_k)
AnswerOracles(handle, pipeline, question, top_k) ==
  IF handle = "None" THEN {[searches |-> <<>>, qa |-> <<>>]}
  ELSE IF IsComparison[question]
  THEN {[searches |-> s, qa |-> <<>>] : s \in SearchOutcomeSeqs(ComparisonRequests(question))}
  ELSE UNION { {[searches |-> <<o>>, qa |-> a] : a \in QaSeqs(pipeline, Len(o.docs))} :
               o \in SearchOutcomes(top_k,
                       _build_metadata_filters(EntitiesOf[question])) }

\* variant: the record of an unset handle carries the error only
UnavailableRecord_ErrorOnly(question) ==
  [ question |-> question,
    error    |-> "Vector store not available. Please ensure it's properly initialized." ]

\* the record returned when the handle of the vector store is unset
UnavailableRecord(question) ==
  [ question |-> question,
    error    |-> "Vector store not available. Please ensure it's properly initialized.",
    answer   |-> "Unable to process question - vector store not loaded" ]

\* answer_question as a function of the handle, the pipeline, its arguments and what the
\* collaborators did: [record, retrievals, path]
answer_question_returns(handle, pipeline, question, top_k, oracle) ==
  IF handle = "None"
  THEN [record |-> UnavailableRecord(question), retrievals |-> <<>>, path |-> "unavailable"]
  ELSE IF IsComparison[question]
  THEN LET r == _handle_comparison_question(question, oracle.searches)
       IN [record |-> r.record, retrievals |-> r.retrievals, path |-> "comparison"]
  ELSE LET r == _handle_standard_question(pipeline, question, top_k, oracle.searches[1], oracle.qa)
       IN [record |-> r.record, retrievals |-> r.retrievals, path |-> "standard"]

\* ------------------------------------------------------ get_company_overview
\* Optional[str]: None is the empty sequence, a value the one-element sequence
None == <<>>
Some(v) == <<v>>

OverviewQueries(company_name) ==
  << [section |-> "emissions",   query |-> company_name \o OVERVIEW_EMISSIONS],
     [section |-> "energy",      query |-> company_name \o OVERVIEW_ENERGY],
     [section |-> "targets",     query |-> company_name \o OVERVIEW_TARGETS],
     [section |-> "initiatives", query |-> company_name \o OVERVIEW_INITIATIVES] >>

OverviewFilters(company_name, year) ==
  ("company_name" :> company_name) @@ (IF year # None THEN "report_year" :> year[1] ELSE EmptyDict)

SectionData(results) ==
  [j \in 1..Len(results) |->
     [ content  |-> Slice(results[j].page_content, 0, 400),
       source   |-> Get(results[j].metadata, "source", UNKNOWN),
       page     |-> Get(results[j].metadata, "page", UNKNOWN),
       chunk_id |-> Get(results[j].metadata, "chunk_id", UNKNOWN),
       numerical_values |-> NumericalValuesOf[results[j].page_content] ]]

\* the loop over the four sections from section n on, the handle being `handle`:
\* [data, handle, loads, retrievals]. query_vectorstore loads the store when the handle
\* is unset and returns [] when that fails.
RECURSIVE OverviewFrom(_, _, _, _, _, _)
OverviewFrom(d, handle, queries, filters, outcomes, n) ==
  IF n > Len(queries) THEN [data |-> <<>>, handle |-> handle, loads |-> 0, retrievals |-> <<>>]
  ELSE LET loaded   == LoadIfUnset(d, handle).handle
           searched == loaded # "None"
           results  == IF searched THEN query_vectorstore(outcomes[n]) ELSE <<>>
           rest     == OverviewFrom(d, loaded, queries, filters, outcomes, n + 1)
       IN [ data       |-> <<SectionData(results)>> \o rest.data,
            handle     |-> rest.handle,
            loads      |-> LoadIfUnset(d, handle).loads + rest.loads,
            retrievals |-> (IF searched
                            THEN <<Retrieval(queries[n].query, 3, filters, outcomes[n])>>
                            ELSE <<>>) \o rest.retrievals ]

\* ------------------------------------------------------------------- states
OverviewCompanies == {Shell, Siemens}
OverviewYears == {None, Some(Y2023)}

Init ==
  /\ pc = "new"
  /\ disk \in [store : {"absent", "corrupt", "ok"}, chunks : {"absent", "present"}, buildOk : BOOLEAN]
  /\ vectorstore = "None"
  /\ qa_pipeline = "None"
  /\ loadCalls = 0
  /\ createCalls = 0
  /\ initCalls = 0
  /\ call = [op |-> "none"]
  /\ result = EmptyDict

\* RetrievalAndFiltering.__init__: the QA pipeline loads or not, then _initialize_vectorstore
\* loads the dataset and, when that fails, builds it from the chunks
Construct ==
  /\ pc = "new"
  /\ pc' = "returned"
  /\ qa_pipeline' \in {"None", "pipeline"}
  /\ LET loaded == load_vectorstore(disk, vectorstore)
         built  == loaded = "None" /\ create_vectorstore(disk)
     IN /\ vectorstore' = IF built THEN "DeepLake" ELSE loaded
        /\ disk' = IF built THEN [disk EXCEPT !.store = "ok"] ELSE disk
        /\ loadCalls' = loadCalls + 1
        /\ createCalls' = createCalls + (IF loaded = "None" THEN 1 ELSE 0)
  /\ initCalls' = initCalls + 1
  /\ call' = [op |-> "__init__"]
  /\ result' = EmptyDict

answer_question(question, top_k) ==
  /\ pc = "idle"
  /\ pc' = "returned"
  /\ \E oracle \in AnswerOracles(vectorstore, qa_pipeline, question, top_k) :
       LET r == answer_question_returns(vectorstore, qa_pipeline, question, top_k, oracle) IN
       /\ result' = r.record
       /\ call' = [ op |-> "answer_question", question |-> question, top_k |-> top_k,
                    path |-> r.path, retrievals |-> r.retrievals, qa |-> oracle.qa,
                    handleBefore |-> vectorstore, loadsBefore |-> loadCalls ]
  /\ UNCHANGED <<disk, vectorstore, qa_pipeline, loadCalls, createCalls, initCalls>>

get_company_overview(company_name, year) ==
  /\ pc = "idle"
  /\ pc' = "returned"
  /\ LET filters == OverviewFilters(company_name, year)
         queries == OverviewQueries(company_name)
     IN \E outcomes \in [1..Len(queries) -> SearchOutcomes(3, filters)] :
          LET o == OverviewFrom(disk, vectorstore, queries, filters, outcomes, 1) IN
          /\ loadCalls + o.loads <= MaxLoadCalls
          /\ loadCalls' = loadCalls + o.loads
          /\ vectorstore' = o.handle
          /\ result' = [ company |-> company_name, year |-> year,
                         sections |-> [ emissions |-> o.data[1], energy |-> o.data[2],
                                        targets |-> o.data[3], initiatives |-> o.data[4] ] ]
          /\ call' = [ op |-> "get_company_overview", company_name |-> company_name,
                       year |-> year, retrievals |-> o.retrievals,
                       handleBefore |-> vectorstore, loadsBefore |-> loadCalls ]
  /\ UNCHANGED <<disk, qa_pipeline, createCalls, initCalls>>

\* VectorStoreManager.load_chunks
load_chunks(d) == IF d.chunks = "present" THEN CORPUS ELSE <<>>

\* the info record of VectorStoreManager.get_vectorstore_info; list(set(...)) is a set
VectorstoreInfo(chunks) ==
  [ total_chunks |-> Len(chunks),
    vectorstore_path |-> VECTORSTORE_PATH,
    companies |-> {Get(chunks[j].metadata, "company_name", UNKNOWN) : j \in 1..Len(chunks)},
    years     |-> {Get(chunks[j].metadata, "report_year", UNKNOWN) : j \in 1..Len(chunks)},
    sources   |-> {Get(chunks[j].metadata, "source", UNKNOWN) : j \in 1..Len(chunks)} ]

get_vectorstore_info ==
  /\ pc = "idle"
  /\ pc' = "returned"
  /\ LET loaded == LoadIfUnset(disk, vectorstore).handle
     IN /\ loadCalls + LoadIfUnset(disk, vectorstore).loads <= MaxLoadCalls
        /\ loadCalls' = loadCalls + LoadIfUnset(disk, vectorstore).loads
        /\ vectorstore' = loaded
        /\ result' = IF loaded = "None" THEN EmptyDict ELSE VectorstoreInfo(load_chunks(disk))
  /\ call' = [ op |-> "get_vectorstore_info",
               handleBefore |-> vectorstore, loadsBefore |-> loadCalls ]
  /\ UNCHANGED <<disk, qa_pipeline, createCalls, initCalls>>

\* the methods of the class VectorStoreManager that RetrievalFilter imports
\* (from Vectorstor_Ollama import VectorStoreManager)
VectorStoreManagerMethods ==
  { "__init__", "test_gemma_connection", "create_vectorstore", "load_vectorstore",
    "query_with_gemma_reranking", "query_vectorstore", "get_vectorstore_info",
    "load_chunks", "save_chunks", "export_vectorstore" }

\* a filter value: a scalar (list = FALSE) or a list of scalars (list = TRUE)
Scalar(v) == [list |-> FALSE, value |-> v]
ListOf(vs) == [list |-> TRUE, value |-> vs]

\* the loop over metadata_filters.items(): chunk_value = chunk["metadata"].get(key);
\* a list value asks for membership, any other value for equality
ChunkMatches(chunk, metadata_filters) ==
  \A key \in DOMAIN metadata_filters :
    IF metadata_filters[key].list
    THEN /\ key \in DOMAIN chunk.metadata
         /\ \E j \in 1..Len(metadata_filters[key].value) :
              metadata_filters[key].value[j] = chunk.metadata[key]
    ELSE /\ key \in DOMAIN chunk.metadata
         /\ chunk.metadata[key] = metadata_filters[key].value

\* the loop over chunks: a matching chunk is appended, then the loop stops once
\* len(filtered_chunks) >= limit
RECURSIVE FilteredChunks(_, _, _, _, _)
FilteredChunks(chunks, metadata_filters, limit, n, filtered_chunks) ==
  IF n > Len(chunks) THEN filtered_chunks
  ELSE IF ChunkMatches(chunks[n], metadata_filters)
       THEN IF Len(filtered_chunks) + 1 >= limit
            THEN Append(filtered_chunks, chunks[n])
            ELSE FilteredChunks(chunks, metadata_filters, limit, n + 1,
                                Append(filtered_chunks, chunks[n]))
       ELSE FilteredChunks(chunks, metadata_filters, limit, n + 1, filtered_chunks)

\* VectorStoreManager.search_by_metadata of the store manager that defines one
VectorStoreManager_search_by_metadata(chunks, metadata_filters, limit) ==
  IF chunks = <<>> THEN <<>>
  ELSE FilteredChunks(chunks, metadata_filters, limit, 1, <<>>)

\* result["numerical_values"] = self._extract_numerical_values(result["content"])
WithNumericalValues(results) ==
  [ j \in 1..Len(results) |->
      [ content  |-> results[j].content,
        metadata |-> results[j].metadata,
        numerical_values |-> NumericalValuesOf[results[j].content] ] ]

MetadataFilterSets ==
  { EmptyDict,
    [company_name |-> Scalar(Shell)],
    [company_name |-> ListOf(<<Shell, Chevron>>)],
    [company_name |-> Scalar(Siemens), report_year |-> Scalar(Y2023)] }
Limits == (1..MaxLimit) \cup {10}

\* RetrievalAndFiltering.search_by_metadata: the call of a method the store manager
\* does not have raises AttributeError, which the except clause turns into []
search_by_metadata(metadata_filters, limit) ==
  /\ pc = "idle"
  /\ pc' = "returned"
  /\ result' = IF "search_by_metadata" \in VectorStoreManagerMethods
               THEN WithNumericalValues(
                      VectorStoreManager_search_by_metadata(load_chunks(disk), metadata_filters, limit))
               ELSE <<>>
  /\ call' = [ op |-> "search_by_metadata", metadata_filters |-> metadata_filters,
               limit |-> limit,
               raised |-> "search_by_metadata" \notin VectorStoreManagerMethods ]
  /\ UNCHANGED <<disk, vectorstore, qa_pipeline, loadCalls, createCalls, initCalls>>

\* the environment: another process (the ingestion side) writes the dataset
DatasetWritten ==
  /\ pc = "idle"
  /\ disk.store # "ok"
  /\ disk' = [disk EXCEPT !.store = "ok"]
  /\ UNCHANGED <<pc, vectorstore, qa_pipeline, loadCalls, createCalls, initCalls, call, result>>

\* interactive_testing: the caller has taken the returned value and asks for the next command
NextCommand ==
  /\ pc = "returned"
  /\ pc' = "idle"
  /\ call' = [op |-> "none"]
  /\ result' = EmptyDict
  /\ UNCHANGED <<disk, vectorstore, qa_pipeline, loadCalls, createCalls, initCalls>>

Next ==
  \/ Construct
  \/ NextCommand
  \/ \E question \in Questions, top_k \in TopKs : answer_question(question, top_k)
  \/ \E company_name \in OverviewCompanies, year \in OverviewYears :
       get_company_overview(company_name, year)
  \/ get_vectorstore_info
  \/ \E metadata_filters \in MetadataFilterSets, limit \in Limits :
       search_by_metadata(metadata_filters, limit)
  \/ DatasetWritten

Spec == Init /\ [][Next]_vars

\* ------------------------------------------------- the functions on their own
\* _build_metadata_filters and _calculate_comparison_metrics called directly, on every
\* entity set and every list of comparison points of a bounded universe.

\* the sequences over S of length at most n
SeqsUpTo(S, n) == UNION {[1..m -> S] : m \in 0..n}

\* entity sets as the extractor builds them: the companies in the order of
\* KNOWN_COMPANIES and without repetition, the years in any order and number
EntityCompanies == <<Siemens, Shell, Chevron>>
CompanyLists ==
  { [j \in 1..Len(s) |-> EntityCompanies[s[j]]] :
      s \in { t \in SeqsUpTo(1..Len(EntityCompanies), MaxEntities) :
                \A a, b \in 1..Len(t) : a < b => t[a] < t[b] } }
EntitySets ==
  { [companies |-> c, years |-> y, emission_scope |-> s, keywords |-> <<>>] :
      c \in CompanyLists, y \in SeqsUpTo({Y2022, Y2023}, MaxEntities),
      s \in {SCOPE_UNKNOWN, EMISSION_SCOPES[1].scope} }

\* a numeric fact as _extract_numerical_values records it
NumericFact(value, unit) == [value |-> value, unit |-> unit, raw_text |-> <<>>, context |-> <<>>]
U_tCO2 == <<"t","C","O","2">>
U_TCO2 == <<"T","C","O","2">>
U_kWh == <<"k","W","h">>
PointFacts ==
  { NumericFact(12 * FIXED, U_tCO2), NumericFact(8 * FIXED, U_tCO2),
    NumericFact(0, U_tCO2), NumericFact((0 - 5) * FIXED, U_TCO2),
    NumericFact(8 * FIXED, U_kWh) }

\* the n-th comparison point of a list, as _handle_comparison_question appends it
PointCompanies == <<Shell, Chevron, Siemens>>
Point(n, facts) ==
  [ company |-> PointCompanies[n], year |-> Y2023, emission_scope |-> EMISSION_SCOPES[1].scope,
    numerical_values |-> facts ]
FactLists == SeqsUpTo(PointFacts, 2)
PointList(facts) == [n \in DOMAIN facts |-> Point(n, facts[n])]

FunctionInit ==
  /\ pc = "function"
  /\ disk = [store |-> "absent", chunks |-> "absent", buildOk |-> FALSE]
  /\ vectorstore = "None"
  /\ qa_pipeline = "None"
  /\ loadCalls = 0
  /\ createCalls = 0
  /\ initCalls = 0
  /\ call = [op |-> "none"]
  /\ result = EmptyDict

\* _build_metadata_filters(entities) for any entity set
BuildMetadataFilters ==
  /\ pc = "function"
  /\ pc' = "applied"
  /\ \E entities \in EntitySets :
       /\ call' = [op |-> "_build_metadata_filters", entities |-> entities]
       /\ result' = _build_metadata_filters(entities)
  /\ UNCHANGED <<disk, vectorstore, qa_pipeline, loadCalls, createCalls, initCalls>>

\* _calculate_comparison_metrics(comparison_results) for any list of points
CalculateComparisonMetrics ==
  /\ pc = "function"
  /\ pc' = "applied"
  /\ \E m \in 0..MaxPoints : \E facts \in [1..m -> FactLists] :
       /\ call' = [ op |-> "_calculate_comparison_metrics",
                    comparison_results |-> PointList(facts) ]
       /\ result' = _calculate_comparison_metrics(PointList(facts))
  /\ UNCHANGED <<disk, vectorstore, qa_pipeline, loadCalls, createCalls, initCalls>>

\* texts given to _extract_numerical_values: the passages of the corpus and short texts
T_PercentThenMass ==
  \* "5 % of 100 tCO2"
  <<"5"," ","%"," ","o","f"," ","1","0","0"," ","t","C","O","2">>
T_PlainMass ==
  \* "100 tCO2"
  <<"1","0","0"," ","t","C","O","2">>
T_NoFigures ==
  \* "No figures given"
  <<"N","o"," ","f","i","g","u","r","e","s"," ","g","i","v","e","n">>
T_TwoEnergy ==
  \* "7 kWh then 3 kWh"
  <<"7"," ","k","W","h"," ","t","h","e","n"," ","3"," ","k","W","h">>
T_Exponent ==
  \* "2e3 kg and 1.5 MWh"
  <<"2","e","3"," ","k","g"," ","a","n","d"," ","1",".","5"," ","M","W","h">>
ExtractTexts ==
  Texts \cup {T_PercentThenMass, T_PlainMass, T_NoFigures, T_TwoEnergy, T_Exponent}

\* _extract_numerical_values(text) for any of the texts; call keeps the matches behind
\* the facts, whose positions the facts themselves do not carry
ExtractNumericalValues ==
  /\ pc = "function"
  /\ pc' = "applied"
  /\ \E text \in ExtractTexts :
       /\ call' = [ op |-> "_extract_numerical_values", text |-> text,
                    matches |-> MatchesOfPatterns(text, 1) ]
       /\ result' = _extract_numerical_values(text)
  /\ UNCHANGED <<disk, vectorstore, qa_pipeline, loadCalls, createCalls, initCalls>>

\* contexts given to _extract_simple_answer: the passages of the corpus and short texts
T_Tie ==
  \* "Targets are set. Siemens agreed"
  <<"T","a","r","g","e","t","s"," ","a","r","e"," ","s","e","t","."," ","S","i","e","m","e","n","s"," ","a","g","r","e","e","d">>
T_Later ==
  \* "Siemens agreed. Siemens targets are set"
  <<"S","i","e","m","e","n","s"," ","a","g","r","e","e","d","."," ","S","i","e","m","e","n","s"," ","t","a","r","g","e","t","s"," ","a","r","e"," ","s","e","t">>
T_Case ==
  \* "TOTAL emissions rose. total emissions are high"
  <<"T","O","T","A","L"," ","e","m","i","s","s","i","o","n","s"," ","r","o","s","e","."," ","t","o","t","a","l"," ","e","m","i","s","s","i","o","n","s"," ","a","r","e"," ","h","i","g","h">>
T_NoWord ==
  \* "No word here. None"
  <<"N","o"," ","w","o","r","d"," ","h","e","r","e","."," ","N","o","n","e">>
T_Repeat ==
  \* "Siemens Siemens Siemens. Siemens targets"
  <<"S","i","e","m","e","n","s"," ","S","i","e","m","e","n","s"," ","S","i","e","m","e","n","s","."," ","S","i","e","m","e","n","s"," ","t","a","r","g","e","t","s">>
AnswerContexts == Texts \cup {T_Tie, T_Later, T_Case, T_NoWord, T_Repeat}

\* _extract_simple_answer(question, context) for any question and context
ExtractSimpleAnswer ==
  /\ pc = "function"
  /\ pc' = "applied"
  /\ \E question \in Questions, context \in AnswerContexts :
       /\ call' = [op |-> "_extract_simple_answer", question |-> question, context |-> context]
       /\ result' = _extract_simple_answer(question, context)
  /\ UNCHANGED <<disk, vectorstore, qa_pipeline, loadCalls, createCalls, initCalls>>

FunctionNext ==
  \/ BuildMetadataFilters
  \/ CalculateComparisonMetrics
  \/ ExtractNumericalValues
  \/ ExtractSimpleAnswer

FunctionSpec == FunctionInit /\ [][FunctionNext]_vars

\* ------------------------------------------- OllamaEmbeddings._embed_single
\* _embed_single(text, retries) run step by step: the loop `for attempt in range(retries)`
\* posts one request per pass; the server and the network decide what each request does.

\* retries: int = 3
DEFAULT_RETRIES == 3

\* a text longer than 2000 characters
T_Huge == T_Long \o T_Long \o T_Long \o T_Long \o T_Long \o T_Long \o T_Long
EmbedTexts == {Q_Plain, T_Huge}

\* text = text[:2000] if len(text) > 2000 else text
Prompt(text) == IF Len(text) > 2000 THEN Slice(text, 0, 2000) ELSE text

\* return [0.0] * 2048
FALLBACK_EMBEDDING == [i \in 1..2048 |-> 0]

\* the vectors the server sends in the field "embedding", in hundredths
ServerEmbeddings == {<<12, 0 - 7>>, <<0, 0>>}

\* what one session.post(..., timeout=self.timeout) does: it raises, or it answers with a
\* status and a body that is a JSON object with or without the field "embedding", or no
\* JSON at all
PostOutcomes ==
  {[raised |-> e, status |-> 0, body |-> "none", embedding |-> <<>>] :
     e \in {"Timeout", "ConnectionError"}}
  \cup {[raised |-> "none", status |-> 500, body |-> "without embedding", embedding |-> <<>>]}
  \cup {[raised |-> "none", status |-> 200, body |-> b, embedding |-> <<>>] :
          b \in {"without embedding", "not json"}}
  \cup {[raised |-> "none", status |-> 200, body |-> "with embedding", embedding |-> e] :
          e \in ServerEmbeddings}

\* the base class of each exception class that the request and response.json() raise
BaseClass ==
  [ Timeout |-> "RequestException", ConnectionError |-> "RequestException",
    RequestException |-> "OSError", OSError |-> "Exception",
    JSONDecodeError |-> "ValueError", ValueError |-> "Exception",
    Exception |-> "BaseException" ]
RECURSIVE IsSubclass(_, _)
IsSubclass(class, base) ==
  \/ class = base
  \/ class \in DOMAIN BaseClass /\ IsSubclass(BaseClass[class], base)

\* variant: only the timeout is caught
Caught_TimeoutOnly(exception) == IsSubclass(exception, "Timeout")

\* except requests.exceptions.Timeout: ... except Exception as e: ...
Caught(exception) == IsSubclass(exception, "Timeout") \/ IsSubclass(exception, "Exception")

\* what the try block raises on an outcome: the exception of the request, or that of
\* response.json() on a 200 answer that is no JSON
RaisedInTry(outcome) ==
  IF outcome.raised # "none" THEN outcome.raised
  ELSE IF outcome.status = 200 /\ outcome.body = "not json" THEN "JSONDecodeError"
  ELSE "none"

\* one pass of the loop body: "return" (status 200 and "embedding" in result), "continue"
\* (the failure is printed and the loop goes on) or "raise" (an exception leaves the method)
Pass(outcome) ==
  IF RaisedInTry(outcome) # "none"
  THEN IF Caught(RaisedInTry(outcome)) THEN "continue" ELSE "raise"
  ELSE IF outcome.status = 200 /\ outcome.body = "with embedding" THEN "return"
  ELSE "continue"

EmbedInit ==
  /\ pc = "embed"
  /\ disk = [store |-> "absent", chunks |-> "absent", buildOk |-> FALSE]
  /\ vectorstore = "None"
  /\ qa_pipeline = "None"
  /\ loadCalls = 0
  /\ createCalls = 0
  /\ initCalls = 0
  /\ call = [op |-> "none"]
  /\ result = <<>>

\* the entry of _embed_single: the text is truncated and the loop is entered
EmbedSingleEntered(caller, text, retries) ==
  /\ pc = "embed"
  /\ pc' = "loop"
  /\ call' = [ op |-> "_embed_single", caller |-> caller, text |-> text,
               prompt |-> Prompt(text), retries |-> retries, attempt |-> 0,
               outcomes |-> <<>>, fallback |-> FALSE ]
  /\ result' = <<>>
  /\ UNCHANGED <<disk, vectorstore, qa_pipeline, loadCalls, createCalls, initCalls>>

\* the call _embed_single(text, retries)
_embed_single(text, retries) == EmbedSingleEntered("caller", text, retries)

\* embed_query(text): return self._embed_single(text)
embed_query(text) == EmbedSingleEntered("embed_query", text, DEFAULT_RETRIES)

\* for attempt in range(retries): response = self.session.post(...)
Post ==
  /\ pc = "loop"
  /\ call.attempt < call.retries
  /\ pc' = "posted"
  /\ UNCHANGED <<disk, vectorstore, qa_pipeline, loadCalls, createCalls, initCalls, call, result>>

\* the request ends, by an answer or an exception, and the rest of the loop body runs
Answer ==
  /\ pc = "posted"
  /\ \E outcome \in PostOutcomes :
       /\ call' = [call EXCEPT !.attempt = @ + 1, !.outcomes = Append(@, outcome)]
       /\ pc' = IF Pass(outcome) = "return" THEN "returned"
                ELSE IF Pass(outcome) = "continue" THEN "loop"
                ELSE "raised"
       /\ result' = IF Pass(outcome) = "return" THEN outcome.embedding ELSE result
  /\ UNCHANGED <<disk, vectorstore, qa_pipeline, loadCalls, createCalls, initCalls>>

\* the loop is exhausted: return [0.0] * 2048
Fallback ==
  /\ pc = "loop"
  /\ call.attempt >= call.retries
  /\ pc' = "returned"
  /\ call' = [call EXCEPT !.fallback = TRUE]
  /\ result' = FALLBACK_EMBEDDING
  /\ UNCHANGED <<disk, vectorstore, qa_pipeline, loadCalls, createCalls, initCalls>>

EmbedNext ==
  \/ \E text \in EmbedTexts, retries \in 0..MaxRetries : _embed_single(text, retries)
  \/ \E text \in EmbedTexts : embed_query(text)
  \/ Post
  \/ Answer
  \/ Fallback

\* the interpreter runs the loop on, and a request that is given timeout=self.timeout
\* ends by an answer or by an exception: no enabled step is put off forever
EmbedSpec == EmbedInit /\ [][EmbedNext]_vars /\ WF_vars(EmbedNext)

\* ---------------------------------------------------------------- properties
\* answer_question has just returned `result`
Answered == pc = "returned" /\ call.op = "answer_question"

\* the content of the chunk with this id
ChunkText(chunk_id) ==
  CORPUS[CHOOSE i \in 1..Len(CORPUS) : CORPUS[i].metadata.chunk_id = chunk_id].content

\* C1: with no QA model (qa_pipeline None) and a retrieval that returned n >= 1 passages,
\* answers has exactly one entry per passage, each with confidence 0.5 and the answer of
\* the fallback heuristic on that passage.
C1_FallbackAnswerPerPassage ==
  ( /\ Answered
    /\ call.path = "standard"
    /\ qa_pipeline = "None"
    /\ Len(call.retrievals[1].returned) >= 1 )
  => /\ "answers" \in DOMAIN result
     /\ Len(result.answers) = Len(call.retrievals[1].returned)
     /\ \A j \in 1..Len(result.answers) :
          /\ result.answers[j].confidence = 50
          /\ result.answers[j].answer =
               _extract_simple_answer(call.question, ChunkText(call.retrievals[1].returned[j]))

\* the case of C1: no QA model, one passage or more retrieved
C1_NoModelPassagesRetrieved ==
  /\ Answered
  /\ call.path = "standard"
  /\ qa_pipeline = "None"
  /\ Len(call.retrievals[1].returned) >= 1
  /\ result.total_results = Len(call.retrievals[1].returned)

\* C2, as stated: every record answer_question returns has an answer or answers field,
\* or an error field.
C2_AnswerOrError ==
  Answered => DOMAIN result \cap {"answer", "answers", "error"} # {}

\* C2, amended: every record answer_question returns has an answer or answers field, an
\* error field, or the comparison_results of a comparison; the record of an unset store
\* has error and answer, that of a standard question answer (no passage) or answers, and
\* that of a comparison question error or comparison_results.
C2_AnswerErrorOrComparison ==
  Answered =>
    /\ DOMAIN result \cap {"answer", "answers", "error", "comparison_results"} # {}
    /\ call.path = "unavailable" => {"error", "answer"} \subseteq DOMAIN result
    /\ call.path = "standard" =>
         IF call.retrievals[1].returned = <<>> THEN "answer" \in DOMAIN result
         ELSE "answers" \in DOMAIN result
    /\ call.path = "comparison" =>
         ("error" \in DOMAIN result) # ("comparison_results" \in DOMAIN result)

\* a comparison that was carried out: its record has none of answer, answers and error
C2_ComparisonRecordReturned ==
  /\ Answered
  /\ "comparison_results" \in DOMAIN result
  /\ Len(result.comparison_results) = 2
  /\ DOMAIN result \cap {"answer", "answers", "error"} = {}

\* C3: when the search raises, the retrieval returns the empty sequence without
\* propagating, and the record returned differs from the record of a search that
\* succeeded with no hit.
C3_RaisedSearchDistinguished ==
  (Answered /\ call.path = "standard" /\ call.retrievals[1].raised)
  => /\ call.retrievals[1].returned = <<>>
     /\ result # _handle_standard_question(qa_pipeline, call.question, call.top_k,
                                           [raised |-> FALSE, docs |-> <<>>], <<>>).record

\* the case of C3: a standard question whose search raised
C3_SearchRaised ==
  /\ Answered
  /\ call.path = "standard"
  /\ call.retrievals[1].raised
  /\ call.retrievals[1].returned = <<>>

\* C4, as stated: on a store that can be neither loaded nor built the load is attempted
\* exactly once in the session, whatever operations follow the construction.
C4_LoadAttemptedOnce ==
  (pc # "new" /\ disk.store # "ok") => loadCalls = 1 /\ createCalls = 1 /\ initCalls = 1

\* C4, amended: the initialization (load, then build when the load failed) runs exactly
\* once, at construction, and the build is never attempted again; answer_question never
\* attempts a load; get_vectorstore_info attempts one load when the handle is unset, and
\* get_company_overview one load per section (four) while the store cannot be loaded.
C4_InitializedOnceLoadRetried ==
  /\ pc # "new" => initCalls = 1 /\ createCalls <= 1
  /\ (pc # "new" /\ disk.store # "ok") => createCalls = 1 /\ vectorstore = "None"
  /\ Answered => loadCalls = call.loadsBefore
  /\ (pc = "returned" /\ call.op = "get_vectorstore_info") =>
       loadCalls = call.loadsBefore + (IF call.handleBefore = "None" THEN 1 ELSE 0)
  /\ (pc = "returned" /\ call.op = "get_company_overview") =>
       loadCalls = call.loadsBefore
                   + (IF call.handleBefore # "None" THEN 0
                      ELSE IF disk.store = "ok" THEN 1 ELSE 4)

\* the store could be neither loaded nor built, and a later call attempted the load again
C4_LoadAttemptedAgain ==
  /\ pc = "returned"
  /\ call.op \in {"get_vectorstore_info", "get_company_overview"}
  /\ disk.store # "ok"
  /\ createCalls = 1
  /\ loadCalls > call.loadsBefore
  /\ call.loadsBefore >= 1

\* C5: a comparison is carried out only with two distinct organizations, or two distinct
\* years and an organization; in every other case (a repeated year, two years without an
\* organization) the record carries the insufficient-entities error and no retrieval ran.
C5_ComparisonNeedsTwoDistinct ==
  (Answered /\ call.path = "comparison")
  => IF \/ Cardinality(Range(result.entities_detected.companies)) >= 2
        \/ /\ Cardinality(Range(result.entities_detected.years)) >= 2
           /\ result.entities_detected.companies # <<>>
     THEN "comparison_results" \in DOMAIN result
     ELSE "error" \in DOMAIN result /\ call.retrievals = <<>>

\* the case of C5: a comparison question with fewer than two distinct organizations
C5_FewerThanTwoOrganizations ==
  /\ Answered
  /\ call.path = "comparison"
  /\ Cardinality(Range(result.entities_detected.companies)) < 2
  /\ Len(result.entities_detected.years) >= 2

\* the comparison-signal phrases, the known organizations and the years of a question
ComparisonPhraseIn ==
  [ question \in Questions |->
      \E phrase \in Range(comparison_keywords) : Contains(lower(question), phrase) ]
OrganizationsIn ==
  [ question \in Questions |->
      {company \in Range(KNOWN_COMPANIES) : Contains(lower(question), lower(company))} ]

\* C6: a question is routed as a comparison exactly when it contains a comparison-signal
\* phrase, or the extractor reports two organizations or more, or two years or more; a
\* question with two known organizations is a comparison with or without such a phrase.
C6_ComparisonIffPhraseOrTwoEntities ==
  (Answered /\ call.path # "unavailable")
  => /\ (call.path = "comparison")
          <=> \/ ComparisonPhraseIn[call.question]
              \/ Len(EntitiesOf[call.question].companies) >= 2
              \/ Len(EntitiesOf[call.question].years) >= 2
     /\ Cardinality(OrganizationsIn[call.question]) >= 2 => call.path = "comparison"

\* two organizations and no comparison phrase: a comparison
C6_TwoOrganizationsNoPhrase ==
  /\ Answered
  /\ call.path = "comparison"
  /\ ~ComparisonPhraseIn[call.question]
  /\ Cardinality(OrganizationsIn[call.question]) = 2
  /\ Len(EntitiesOf[call.question].years) = 0

\* C7: the filter has company_name exactly when one organization was detected and
\* report_year exactly when one year was detected, each holding that value, and no other
\* field.
C7_FilterFieldIffExactlyOne ==
  (call.op = "_build_metadata_filters")
  => /\ ("company_name" \in DOMAIN result) <=> (Len(call.entities.companies) = 1)
     /\ ("report_year" \in DOMAIN result) <=> (Len(call.entities.years) = 1)
     /\ "company_name" \in DOMAIN result => result.company_name = call.entities.companies[1]
     /\ "report_year" \in DOMAIN result => result.report_year = call.entities.years[1]
     /\ DOMAIN result \subseteq {"company_name", "report_year"}

\* two organizations and one year: the filter has the year alone
C7_TwoOrganizationsOneYear ==
  /\ call.op = "_build_metadata_filters"
  /\ Len(call.entities.companies) = 2
  /\ Len(call.entities.years) = 1
  /\ DOMAIN result = {"report_year"}

\* C8: "Compare Shell and Chevron Scope 1 emissions", over a corpus with one Shell passage
\* saying 100 tCO2 and one Chevron passage saying 80 tCO2, gives two comparison points
\* (Shell, Chevron) and exactly one metric, with highest Shell and difference 20.
C8_ShellChevronExample ==
  ( /\ Answered
    /\ call.question = Q_Compare
    /\ call.path = "comparison"
    /\ \A n \in 1..Len(call.retrievals) : ~call.retrievals[n].raised )
  => /\ {i \in 1..Len(CORPUS) : CORPUS[i].metadata.company_name = Shell} = {1}
     /\ {i \in 1..Len(CORPUS) : CORPUS[i].metadata.company_name = Chevron} = {2}
     /\ Len(result.comparison_results) = 2
     /\ result.comparison_results[1].company = Shell
     /\ result.comparison_results[2].company = Chevron
     /\ Len(result.comparison_metrics.numerical_comparisons) = 1
     /\ result.comparison_metrics.numerical_comparisons[1].highest.company = Shell
     /\ result.comparison_metrics.numerical_comparisons[1].highest.value = 100 * FIXED
     /\ result.comparison_metrics.numerical_comparisons[1].difference = 20 * FIXED

\* the example of C8 has run, both searches returning their passage
C8_ShellChevronCompared ==
  /\ Answered
  /\ call.question = Q_Compare
  /\ Len(call.retrievals) = 2
  /\ call.retrievals[1].returned = <<CHUNK_1>>
  /\ call.retrievals[2].returned = <<CHUNK_2>>
  /\ "comparison_metrics" \in DOMAIN result

\* the metrics _calculate_comparison_metrics has just returned
Calculated == call.op = "_calculate_comparison_metrics" /\ "numerical_comparisons" \in DOMAIN result
MetricsReturned == result.numerical_comparisons

\* the points of the example of C9: values 12 and 8 in one unit
C9_ExamplePoints ==
  << Point(1, <<NumericFact(12 * FIXED, U_tCO2)>>), Point(2, <<NumericFact(8 * FIXED, U_tCO2)>>) >>

\* C9: in every metric difference = highest.value - lowest.value and, when the lowest
\* value is positive, percentage_difference = difference / lowest.value * 100; the values
\* 12 and 8 give difference 4 and percentage_difference 50.
C9_DifferenceAndPercentage ==
  Calculated
  => /\ \A j \in 1..Len(MetricsReturned) :
          /\ MetricsReturned[j].difference
               = MetricsReturned[j].highest.value - MetricsReturned[j].lowest.value
          /\ MetricsReturned[j].lowest.value > 0 =>
               /\ MetricsReturned[j].percentage_difference.den > 0
               /\ MetricsReturned[j].percentage_difference.num * MetricsReturned[j].lowest.value
                    = MetricsReturned[j].difference * 100
                      * MetricsReturned[j].percentage_difference.den
     /\ call.comparison_results = C9_ExamplePoints =>
          /\ Len(MetricsReturned) = 1
          /\ MetricsReturned[1].difference = 4 * FIXED
          /\ MetricsReturned[1].percentage_difference.num
               = 50 * MetricsReturned[1].percentage_difference.den

\* the example of C9 has been calculated
C9_TwelveAndEight ==
  /\ Calculated
  /\ call.comparison_results = C9_ExamplePoints
  /\ MetricsReturned[1].highest.value = 12 * FIXED
  /\ MetricsReturned[1].lowest.value = 8 * FIXED

\* the values recorded in the points under a unit, whatever its case, as <<point, fact>>
ObservationsOf(points, unit) ==
  UNION { { <<n, j>> : j \in { k \in 1..Len(points[n].numerical_values) :
                                lower(points[n].numerical_values[k].unit) = unit } } :
          n \in 1..Len(points) }
UnitsOf(points) ==
  UNION { { lower(points[n].numerical_values[j].unit) :
              j \in 1..Len(points[n].numerical_values) } : n \in 1..Len(points) }
HasNonPositive(points, unit) ==
  \E o \in ObservationsOf(points, unit) : points[o[1]].numerical_values[o[2]].value <= 0

\* C10: a metric whose lowest value is <= 0 has percentage_difference 0 and its
\* difference, and it is emitted: every unit with two observations or more, one of them
\* <= 0, has its metric.
C10_NonPositiveLowest ==
  Calculated
  => /\ \A j \in 1..Len(MetricsReturned) :
          MetricsReturned[j].lowest.value <= 0 =>
            /\ MetricsReturned[j].percentage_difference.num = 0
            /\ MetricsReturned[j].percentage_difference.den # 0
            /\ MetricsReturned[j].difference
                 = MetricsReturned[j].highest.value - MetricsReturned[j].lowest.value
     /\ \A unit \in UnitsOf(call.comparison_results) :
          ( /\ Cardinality(ObservationsOf(call.comparison_results, unit)) >= 2
            /\ HasNonPositive(call.comparison_results, unit) )
          => \E j \in 1..Len(MetricsReturned) :
               /\ MetricsReturned[j].unit = unit
               /\ MetricsReturned[j].lowest.value <= 0
               /\ MetricsReturned[j].percentage_difference.num = 0

\* a metric with lowest value <= 0 and a positive difference has been emitted
C10_MetricWithNonPositiveLowest ==
  /\ Calculated
  /\ \E j \in 1..Len(MetricsReturned) :
       /\ MetricsReturned[j].lowest.value <= 0
       /\ MetricsReturned[j].difference > 0
       /\ MetricsReturned[j].percentage_difference.num = 0

\* C11: a question with no known organization, no year and no comparison phrase issues
\* exactly one retrieval, with an empty filter and k = top_k; when the search succeeds on
\* the (non-empty) corpus the record carries the passages retrieved (total_results > 0)
\* and no error.
C11_UnfilteredRetrieval ==
  ( /\ Answered
    /\ call.path # "unavailable"
    /\ OrganizationsIn[call.question] = {}
    /\ Len(EntitiesOf[call.question].years) = 0
    /\ ~ComparisonPhraseIn[call.question] )
  => /\ call.path = "standard"
     /\ Len(call.retrievals) = 1
     /\ DOMAIN call.retrievals[1].filters = {}
     /\ call.retrievals[1].k = call.top_k
     /\ call.retrievals[1].query = call.question
     /\ (~call.retrievals[1].raised /\ CORPUS # <<>>) =>
          /\ result.total_results = Len(call.retrievals[1].returned)
          /\ result.total_results = Min(call.top_k, Len(CORPUS))
          /\ result.total_results > 0
          /\ "answers" \in DOMAIN result
          /\ "error" \notin DOMAIN result

\* a question without entities has retrieved top_k = 2 passages with no filter
C11_TwoPassagesUnfiltered ==
  /\ Answered
  /\ call.question = Q_Plain
  /\ call.top_k = 2
  /\ DOMAIN call.retrievals[1].filters = {}
  /\ Len(call.retrievals[1].returned) = 2
  /\ result.total_results = 2

\* C12: on the standard path every passage retrieved yields exactly one answer record, in
\* retrieval order: len(answers) = total_results, also when the QA model fails on a
\* passage.
C12_OneAnswerPerPassage ==
  (Answered /\ call.path = "standard" /\ "answers" \in DOMAIN result)
  => /\ result.total_results = Len(call.retrievals[1].returned)
     /\ Len(result.answers) = result.total_results
     /\ \A j \in 1..Len(result.answers) :
          result.answers[j].chunk_id = call.retrievals[1].returned[j]

\* the case of C12: a QA model is configured and its invocation failed on a passage
C12_ModelFailedOnPassage ==
  /\ Answered
  /\ call.path = "standard"
  /\ qa_pipeline = "pipeline"
  /\ Len(call.retrievals[1].returned) = 2
  /\ call.qa[1].kind = "raise"
  /\ call.qa[2].kind = "list"

\* C13: every answer record of the standard path carries the numeric facts extracted
\* from the full content of its passage (not from the truncated context it also carries),
\* whether the answer came from the QA model or from the fallback heuristic.
C13_FactsOfFullContent ==
  (Answered /\ call.path = "standard" /\ "answers" \in DOMAIN result)
  => \A j \in 1..Len(result.answers) :
       /\ result.answers[j].numerical_values
            = NumericalValuesOf[ChunkText(result.answers[j].chunk_id)]
       /\ result.answers[j].chunk_id = CHUNK_5 =>
            /\ Len(result.answers[j].context) = 303
            /\ Len(result.answers[j].numerical_values) = 1
            /\ result.answers[j].numerical_values[1].value = 7 * FIXED
            /\ result.answers[j].numerical_values[1].unit = U_kWh
       /\ result.answers[j].chunk_id = CHUNK_3 =>
            Len(result.answers[j].numerical_values) = 3

\* a model answer and a fallback answer, the second for the passage whose only fact lies
\* beyond the 300 characters kept as context
C13_ModelAndFallbackAnswers ==
  /\ Answered
  /\ call.path = "standard"
  /\ "answers" \in DOMAIN result
  /\ Len(result.answers) = 2
  /\ result.answers[1].confidence = 90
  /\ result.answers[1].chunk_id = CHUNK_3
  /\ result.answers[2].confidence = 50
  /\ result.answers[2].chunk_id = CHUNK_5
  /\ Len(result.answers[2].numerical_values) = 1

\* the chunks of the corpus, in corpus order, that match every filter entry
RECURSIVE MatchingChunks(_, _, _)
MatchingChunks(chunks, metadata_filters, n) ==
  IF n > Len(chunks) THEN <<>>
  ELSE (IF ChunkMatches(chunks[n], metadata_filters) THEN <<chunks[n]>> ELSE <<>>)
       \o MatchingChunks(chunks, metadata_filters, n + 1)

SearchedByMetadata == pc = "returned" /\ call.op = "search_by_metadata"

\* C14: search_by_metadata(filters, limit) returns, in corpus order, the records whose
\* metadata matches every filter entry (equality for a scalar, membership for a list), up
\* to limit of them, each with its numeric facts; on a failure it returns the empty
\* sequence.
C14_MatchingRecordsReturned ==
  SearchedByMetadata =>
    /\ Len(result) <= call.limit
    /\ result = WithNumericalValues(
         SubSeq(MatchingChunks(load_chunks(disk), call.metadata_filters, 1), 1,
                Min(call.limit,
                    Len(MatchingChunks(load_chunks(disk), call.metadata_filters, 1)))))

\* the case of C14: the chunks are on disk and one of them matches the filter
C14_FilterMatchesChunk ==
  /\ SearchedByMetadata
  /\ call.metadata_filters = [company_name |-> Scalar(Shell)]
  /\ call.limit = 10
  /\ Len(MatchingChunks(load_chunks(disk), call.metadata_filters, 1)) = 1
  /\ result = <<>>

\* the filter has field key exactly when present holds, and then with this value
FieldIs(filters, key, present, value) ==
  /\ (key \in DOMAIN filters) <=> present
  /\ present => filters[key] = value

\* C15 as stated: every filter passed to the vector store during answer_question, on the
\* standard and on the comparison path, sets a field only from an entity list with
\* exactly one entry in the question.
C15_FieldsOnlyFromSingletonLists ==
  Answered =>
    \A n \in 1..Len(call.retrievals) :
      /\ "company_name" \in DOMAIN call.retrievals[n].filters
           => Len(EntitiesOf[call.question].companies) = 1
      /\ "report_year" \in DOMAIN call.retrievals[n].filters
           => Len(EntitiesOf[call.question].years) = 1

\* C15 amended: every filter holds one single value per field, a detected entity. On the
\* standard path a field is set exactly when its entity list has one entry; on the
\* comparison path the n-th filter holds the n-th organization and the first detected
\* year, if any (organization mode), or the only organization and the n-th year (year
\* mode).
C15_FieldsFromDetectedEntities ==
  Answered =>
    \A n \in 1..Len(call.retrievals) :
      /\ DOMAIN call.retrievals[n].filters \subseteq {"company_name", "report_year"}
      /\ IF call.path = "standard"
         THEN /\ n = 1
              /\ FieldIs(call.retrievals[n].filters, "company_name",
                         Len(EntitiesOf[call.question].companies) = 1,
                         EntitiesOf[call.question].companies[1])
              /\ FieldIs(call.retrievals[n].filters, "report_year",
                         Len(EntitiesOf[call.question].years) = 1,
                         EntitiesOf[call.question].years[1])
         ELSE IF Len(EntitiesOf[call.question].companies) >= 2
         THEN /\ FieldIs(call.retrievals[n].filters, "company_name", TRUE,
                         EntitiesOf[call.question].companies[n])
              /\ FieldIs(call.retrievals[n].filters, "report_year",
                         Len(EntitiesOf[call.question].years) >= 1,
                         EntitiesOf[call.question].years[1])
         ELSE /\ Len(EntitiesOf[call.question].companies) = 1
              /\ FieldIs(call.retrievals[n].filters, "company_name", TRUE,
                         EntitiesOf[call.question].companies[1])
              /\ FieldIs(call.retrievals[n].filters, "report_year", TRUE,
                         EntitiesOf[call.question].years[n])

\* a comparison of two organizations in a question with two years: each filter holds one
\* of the two organizations and the first of the two years
C15_TwoOrganizationsTwoYears ==
  /\ Answered
  /\ call.question = Q_Both
  /\ Len(call.retrievals) = 2
  /\ call.retrievals[1].filters = [company_name |-> Shell, report_year |-> Y2022]
  /\ call.retrievals[2].filters = [company_name |-> Chevron, report_year |-> Y2022]

\* C16: when a QA model is configured and returns a span for a passage, the answer record
\* of that passage takes its answer text and its confidence from the span and its score,
\* not from the fallback heuristic.
C16_AnswerAndScoreOfModel ==
  ( /\ Answered
    /\ call.path = "standard"
    /\ qa_pipeline = "pipeline"
    /\ "answers" \in DOMAIN result )
  => \A j \in 1..Len(call.retrievals[1].returned) :
       call.qa[j].kind \in {"dict", "list"} =>
         \E i \in 1..Len(result.answers) :
           /\ result.answers[i].chunk_id = call.retrievals[1].returned[j]
           /\ result.answers[i].answer = call.qa[j].answer
           /\ result.answers[i].confidence = call.qa[j].score

\* the case of C16: the configured model returned one span with its score (a dict) for
\* the passage retrieved
C16_ModelReturnedSpan ==
  /\ Answered
  /\ call.path = "standard"
  /\ qa_pipeline = "pipeline"
  /\ Len(call.retrievals[1].returned) = 1
  /\ call.qa[1].kind = "dict"
  /\ call.qa[1].score = 90
  /\ Len(result.answers) = 1
  /\ result.answers[1].confidence = 50

\* a comparison that passed the guard on the number of entities
Compared == Answered /\ call.path = "comparison" /\ "comparison_results" \in DOMAIN result

\* the entity the n-th retrieval of a comparison is for
ComparedEntity(question, n) ==
  IF Len(EntitiesOf[question].companies) >= 2 THEN EntitiesOf[question].companies[n]
  ELSE EntitiesOf[question].years[n]

\* <<entity, chunk id of the top passage>> of the retrievals from the n-th on that
\* returned a passage
RECURSIVE TopPassages(_, _, _)
TopPassages(question, retrievals, n) ==
  IF n > Len(retrievals) THEN <<>>
  ELSE (IF retrievals[n].returned = <<>> THEN <<>>
        ELSE << <<ComparedEntity(question, n), retrievals[n].returned[1]>> >>)
       \o TopPassages(question, retrievals, n + 1)

\* <<entity, chunk id>> of the comparison points
PointKeys(question, points) ==
  [ j \in 1..Len(points) |->
      << IF Len(EntitiesOf[question].companies) >= 2 THEN points[j].company
         ELSE points[j].year,
         points[j].chunk_id >> ]

\* C17: on the comparison path a retrieval that fails for one entity does not abort the
\* others: every entity is still retrieved, the failing one contributes no point, every
\* other one contributes the point of its top passage, and a comparison result is returned.
C17_FailureOfOneEntityIsolated ==
  (Answered /\ call.path = "comparison" /\ call.retrievals # <<>>)
  => /\ "comparison_results" \in DOMAIN result
     /\ "comparison_metrics" \in DOMAIN result
     /\ "error" \notin DOMAIN result
     /\ Len(call.retrievals) =
          IF Len(EntitiesOf[call.question].companies) >= 2
          THEN Len(EntitiesOf[call.question].companies)
          ELSE Len(EntitiesOf[call.question].years)
     /\ \A n \in 1..Len(call.retrievals) :
          call.retrievals[n].raised => call.retrievals[n].returned = <<>>
     /\ PointKeys(call.question, result.comparison_results)
          = TopPassages(call.question, call.retrievals, 1)

\* the retrieval of the first organization raised, the second organization has its point
C17_FirstRetrievalRaised ==
  /\ Compared
  /\ call.question = Q_Compare
  /\ call.retrievals[1].raised
  /\ ~call.retrievals[2].raised
  /\ Len(result.comparison_results) = 1
  /\ result.comparison_results[1].company = Chevron

\* C18: in organization-comparison mode with N detected organizations, answer_question
\* issues exactly N retrievals with k = 3 whatever top_k is, one per organization in
\* detection order, and comparison_results holds at most one point per organization, in
\* the same order, built from the top passage of that organization's retrieval.
C18_OneRetrievalPerOrganization ==
  ( /\ Answered
    /\ call.path = "comparison"
    /\ Len(EntitiesOf[call.question].companies) >= 2 )
  => /\ Len(call.retrievals) = Len(EntitiesOf[call.question].companies)
     /\ \A n \in 1..Len(call.retrievals) :
          /\ call.retrievals[n].k = 3
          /\ call.retrievals[n].filters.company_name = EntitiesOf[call.question].companies[n]
          /\ Len(call.retrievals[n].returned) <= 3
     /\ Len(result.comparison_results) <= Len(EntitiesOf[call.question].companies)
     /\ \A j \in 1..Len(result.comparison_results) :
          \E n \in j..Len(call.retrievals) :
            /\ result.comparison_results[j].company = EntitiesOf[call.question].companies[n]
            /\ call.retrievals[n].returned # <<>>
            /\ result.comparison_results[j].chunk_id = call.retrievals[n].returned[1]
            /\ result.comparison_results[j].numerical_values
                 = NumericalValuesOf[ChunkText(call.retrievals[n].returned[1])]
            /\ Cardinality({i \in 1..n : call.retrievals[i].returned # <<>>}) = j

\* two organizations with top_k = 1: the retrieval of the first one still returned two
\* passages, and its point is built from the first of them
C18_TwoPassagesTopKOne ==
  /\ Compared
  /\ call.question = Q_TwoOrgs
  /\ call.top_k = 1
  /\ Len(call.retrievals) = 2
  /\ Len(call.retrievals[1].returned) = 2
  /\ Len(result.comparison_results) = 2
  /\ result.comparison_results[1].chunk_id = call.retrievals[1].returned[1]

\* C19: with at least 2 organizations the comparison is across the organizations, also
\* when 2 or more years are detected: one retrieval per organization, none per year, and
\* comparison_type "company". The comparison across years runs only with exactly one
\* organization and at least 2 years; with no organization nothing is retrieved.
C19_OrganizationsBeforeYears ==
  Compared =>
    /\ Len(EntitiesOf[call.question].companies) >= 2 =>
         /\ result.comparison_type = "company"
         /\ Len(call.retrievals) = Len(EntitiesOf[call.question].companies)
         /\ \A n \in 1..Len(call.retrievals) :
              /\ call.retrievals[n].query
                   = CompanyQuery(EntitiesOf[call.question].companies[n],
                                  EntitiesOf[call.question].emission_scope)
              /\ call.retrievals[n].filters.company_name
                   = EntitiesOf[call.question].companies[n]
              /\ "report_year" \in DOMAIN call.retrievals[n].filters =>
                   call.retrievals[n].filters.report_year = EntitiesOf[call.question].years[1]
    /\ Len(EntitiesOf[call.question].companies) < 2 =>
         /\ result.comparison_type = "year"
         /\ Len(EntitiesOf[call.question].years) >= 2
         /\ Len(EntitiesOf[call.question].companies) = 0 => call.retrievals = <<>>
         /\ Len(EntitiesOf[call.question].companies) = 1 =>
              /\ Len(call.retrievals) = Len(EntitiesOf[call.question].years)
              /\ \A n \in 1..Len(call.retrievals) :
                   /\ call.retrievals[n].query
                        = YearQuery(EntitiesOf[call.question].companies[1],
                                    EntitiesOf[call.question].years[n],
                                    EntitiesOf[call.question].emission_scope)
                   /\ call.retrievals[n].filters.report_year
                        = EntitiesOf[call.question].years[n]

\* two organizations and two years: compared across the organizations
C19_TwoOrganizationsAndTwoYears ==
  /\ Compared
  /\ Len(EntitiesOf[call.question].companies) = 2
  /\ Len(EntitiesOf[call.question].years) = 2
  /\ result.comparison_type = "company"
  /\ Len(call.retrievals) = 2
  /\ call.retrievals[2].filters.company_name = Chevron

\* the values observed in the points under a unit, whatever its case
ValuesOf(points, unit) ==
  { points[o[1]].numerical_values[o[2]].value : o \in ObservationsOf(points, unit) }

\* C20: the aggregation groups the facts of all points by lower-cased unit and emits a
\* metric for a unit exactly when its group has at least 2 observations, once; highest and
\* lowest are the maximum and the minimum of the group; with fewer than 2 points it
\* returns an error marker and no metric.
C20_MetricPerUnitGroup ==
  (pc = "applied" /\ call.op = "_calculate_comparison_metrics")
  => IF Len(call.comparison_results) < 2
     THEN DOMAIN result = {"error"}
     ELSE /\ "error" \notin DOMAIN result
          /\ \A unit \in UnitsOf(call.comparison_results) :
               Cardinality(ObservationsOf(call.comparison_results, unit)) >= 2
               <=> \E j \in 1..Len(MetricsReturned) : MetricsReturned[j].unit = unit
          /\ \A j \in 1..Len(MetricsReturned) :
               /\ MetricsReturned[j].unit \in UnitsOf(call.comparison_results)
               /\ \A i \in 1..Len(MetricsReturned) :
                    i # j => MetricsReturned[i].unit # MetricsReturned[j].unit
               /\ MetricsReturned[j].highest.value
                    \in ValuesOf(call.comparison_results, MetricsReturned[j].unit)
               /\ MetricsReturned[j].lowest.value
                    \in ValuesOf(call.comparison_results, MetricsReturned[j].unit)
               /\ \A v \in ValuesOf(call.comparison_results, MetricsReturned[j].unit) :
                    /\ v <= MetricsReturned[j].highest.value
                    /\ v >= MetricsReturned[j].lowest.value

\* two points, units tCO2 and TCO2 in one group with its metric, kWh observed once and
\* without a metric
C20_MixedCaseGroupAndSingleton ==
  /\ Calculated
  /\ Len(call.comparison_results) = 2
  /\ Len(MetricsReturned) = 1
  /\ MetricsReturned[1].unit = lower(U_tCO2)
  /\ MetricsReturned[1].highest.value = 12 * FIXED
  /\ MetricsReturned[1].lowest.value = 0 - 5 * FIXED
  /\ Cardinality(ObservationsOf(call.comparison_results, lower(U_kWh))) = 1

\* fewer than two points: the error marker
C20_FewerThanTwoPoints ==
  /\ pc = "applied"
  /\ call.op = "_calculate_comparison_metrics"
  /\ Len(call.comparison_results) = 1
  /\ "error" \in DOMAIN result

\* observation o1 comes before o2 in the order the facts of the points are collected
CollectedBefore(o1, o2) == o1[1] < o2[1] \/ (o1[1] = o2[1] /\ o1[2] < o2[2])

\* the unit has two observations or more, and its first one comes before the first one of
\* every other such unit
FirstGroupOfTwo(points, unit) ==
  /\ Cardinality(ObservationsOf(points, unit)) >= 2
  /\ \A other \in UnitsOf(points) \ {unit} :
       Cardinality(ObservationsOf(points, other)) >= 2
       => \E o \in ObservationsOf(points, unit) :
            \A p \in ObservationsOf(points, other) : CollectedBefore(o, p)

\* C21: the summary is built from the first computed metric only, the metric of the unit
\* group first encountered among those with at least 2 observations, whatever other
\* metrics exist; it is the empty string when no metric was computed.
C21_SummaryOfFirstMetric ==
  Calculated =>
    IF MetricsReturned = <<>> THEN result.summary = <<>>
    ELSE /\ FirstGroupOfTwo(call.comparison_results, MetricsReturned[1].unit)
         /\ result.summary
              = << "Highest: ", MetricsReturned[1].highest.company, " (",
                   MetricsReturned[1].highest.value, " ", MetricsReturned[1].unit,
                   "), Lowest: ", MetricsReturned[1].lowest.company, " (",
                   MetricsReturned[1].lowest.value, " ", MetricsReturned[1].unit, ")" >>

\* two metrics with different highest values: the summary gives the first one
C21_TwoMetrics ==
  /\ Calculated
  /\ Len(MetricsReturned) = 2
  /\ MetricsReturned[1].highest.value # MetricsReturned[2].highest.value
  /\ result.summary[4] = MetricsReturned[1].highest.value
  /\ result.summary[6] = MetricsReturned[1].unit

\* two points without two observations of any unit: no metric, the empty summary
C21_NoMetric ==
  /\ Calculated
  /\ MetricsReturned = <<>>
  /\ UnitsOf(call.comparison_results) # {}
  /\ result.summary = <<>>

Extracted == pc = "applied" /\ call.op = "_extract_numerical_values"

\* C22: the facts _extract_numerical_values returns are ordered by position in the text:
\* a fact whose match starts earlier never comes after a fact whose match starts later,
\* across all unit families.
C22_FactsInTextOrder ==
  Extracted =>
    /\ Len(call.matches) = Len(result)
    /\ \A i, j \in 1..Len(result) :
         i < j => call.matches[i].start <= call.matches[j].start

\* the case of C22: a percentage followed by a mass; the mass comes first in the result
C22_MassBeforeEarlierPercentage ==
  /\ Extracted
  /\ call.text = T_PercentThenMass
  /\ Len(result) = 3
  /\ result[1].raw_text = T_PlainMass
  /\ result[2].unit = <<"%">>
  /\ call.matches[2].start = 1
  /\ call.matches[1].start = 8

\* the patterns that match the span of text from start to end
PatternsMatching(text, start, end) ==
  { n \in 1..Len(patterns) :
      \E k \in 1..Len(FindIter(patterns[n], text, NextDigit(text, 1))) :
        /\ FindIter(patterns[n], text, NextDigit(text, 1))[k].start = start
        /\ FindIter(patterns[n], text, NextDigit(text, 1))[k].end = end }

\* C23: no deduplication: a span is emitted once per pattern that matches it, so a plain
\* number followed by tCO2, matched by the mass pattern and by the thousands-separator
\* pattern, gives two facts with the same value and unit.
C23_OneFactPerMatchingPattern ==
  Extracted =>
    /\ Len(result) = Len(call.matches)
    /\ \A j \in 1..Len(call.matches) :
         /\ j <= Len(result)
         /\ result[j].raw_text = SubSeq(call.text, call.matches[j].start, call.matches[j].end)
         /\ Cardinality({ i \in 1..Len(result) :
                            /\ call.matches[i].start = call.matches[j].start
                            /\ call.matches[i].end = call.matches[j].end })
              = Cardinality(PatternsMatching(call.text, call.matches[j].start,
                                             call.matches[j].end))
    /\ call.text = T_PlainMass =>
         /\ Len(result) = 2
         /\ result[1].value = 100 * FIXED
         /\ result[1].unit = U_tCO2
         /\ result[2] = result[1]
    /\ call.text = T_PercentThenMass =>
         /\ Len(result) = 3
         /\ result[2].value = 5 * FIXED
         /\ result[3] = result[1]
    /\ call.text = T_Exponent =>
         /\ Len(result) = 2
         /\ result[1].value = 2000 * FIXED
         /\ result[2].value = 150
    /\ call.text = T_TwoEnergy => Len(result) = 2
    /\ call.text = T_NoFigures => result = <<>>

\* a number followed by tCO2: the same fact twice
C23_SameSpanTwice ==
  /\ Extracted
  /\ call.text = T_PlainMass
  /\ Len(result) = 2
  /\ result[1] = result[2]
  /\ PatternsMatching(call.text, 1, Len(call.text)) = {1, 4}

SimpleAnswered == pc = "applied" /\ call.op = "_extract_simple_answer"

\* the number of distinct words of the question, lower-cased and split at whitespace,
\* that the n-th sentence of the context (split at ".") has
SharedWords(question, context, n) ==
  Cardinality(WordSet(question) \cap WordSet(split_on(context, ".")[n]))

\* C24: the fallback heuristic returns the sentence sharing the largest number of distinct
\* question words, the earliest such sentence on ties, and the sentinel exactly when no
\* sentence shares a word with the question.
C24_BestSentenceOrSentinel ==
  SimpleAnswered =>
    /\ IF \A n \in 1..Len(split_on(call.context, ".")) :
            SharedWords(call.question, call.context, n) = 0
       THEN result = SENTINEL_ANSWER
       ELSE /\ result # SENTINEL_ANSWER
            /\ \E n \in 1..Len(split_on(call.context, ".")) :
                 /\ result = strip(split_on(call.context, ".")[n])
                 /\ SharedWords(call.question, call.context, n) > 0
                 /\ \A k \in 1..Len(split_on(call.context, ".")) :
                      /\ SharedWords(call.question, call.context, k)
                           <= SharedWords(call.question, call.context, n)
                      /\ k < n => SharedWords(call.question, call.context, k)
                                    < SharedWords(call.question, call.context, n)
    /\ (call.question = Q_Siemens /\ call.context = T_Tie) => result = SubSeq(T_Tie, 1, 15)
    /\ (call.question = Q_Siemens /\ call.context = T_Later) => result = SubSeq(T_Later, 17, 39)
    /\ (call.question = Q_Siemens /\ call.context = T_Repeat) => result = Q_Siemens
    /\ (call.question = Q_Plain /\ call.context = T_Case) => result = SubSeq(T_Case, 23, 46)
    /\ (call.question = Q_Plain /\ call.context = T_NoWord) => result = SENTINEL_ANSWER

\* two sentences share one word each with the question: the first one is the answer
C24_TieFirstSentence ==
  /\ SimpleAnswered
  /\ call.question = Q_Siemens
  /\ call.context = T_Tie
  /\ SharedWords(call.question, call.context, 1) = 1
  /\ SharedWords(call.question, call.context, 2) = 1
  /\ result = SubSeq(T_Tie, 1, 15)

\* a step in which one of answer_question, get_company_overview, get_vectorstore_info and
\* search_by_metadata runs from its call to its return
QueryStep == pc = "idle" /\ pc' = "returned"

\* C25: once the handle of the vector store is set, a query neither assigns it (no call of
\* load_vectorstore is made and the handle is the same afterwards) nor changes the dataset
\* and the chunk file; the handle is the only field of the instance a query ever changes.
C25_HandleReadOnlyOnceSet ==
  [][ QueryStep =>
        /\ vectorstore # "None" => (vectorstore' = vectorstore /\ loadCalls' = loadCalls)
        /\ disk' = disk
        /\ qa_pipeline' = qa_pipeline
        /\ createCalls' = createCalls
        /\ initCalls' = initCalls ]_vars

\* get_company_overview has run its four retrievals with the handle set before the call
C25_OverviewWithHandleSet ==
  /\ pc = "returned"
  /\ call.op = "get_company_overview"
  /\ call.handleBefore = "DeepLake"
  /\ Len(call.retrievals) = 4
  /\ vectorstore = "DeepLake"
  /\ loadCalls = call.loadsBefore

\* C26: answer_question called while the handle of the vector store is unset returns a
\* record with an error field and an answer field, for a comparison question as for any
\* other; it issues no retrieval and no load, and the handle is still unset afterwards.
C26_UnavailableRecordAndNoWork ==
  (Answered /\ call.handleBefore = "None") =>
    /\ DOMAIN result = {"question", "error", "answer"}
    /\ result.question = call.question
    /\ result.error = "Vector store not available. Please ensure it's properly initialized."
    /\ result.answer = "Unable to process question - vector store not loaded"
    /\ call.path = "unavailable"
    /\ call.retrievals = <<>>
    /\ call.qa = <<>>
    /\ loadCalls = call.loadsBefore
    /\ vectorstore = "None"

\* a comparison question asked while the handle is unset although the dataset has been
\* written since the construction
C26_UnsetHandleDatasetPresent ==
  /\ Answered
  /\ call.handleBefore = "None"
  /\ call.question = Q_Compare
  /\ IsComparison[call.question]
  /\ disk.store = "ok"
  /\ "error" \in DOMAIN result

\* C27: a question that contains a comparison-signal phrase, be it inside another word,
\* and names fewer than two organizations and fewer than two years is answered on the
\* comparison path with the insufficient-entities error and without any retrieval.
C27_PhraseAloneGivesError ==
  ( /\ Answered
    /\ call.handleBefore # "None"
    /\ ComparisonPhraseIn[call.question]
    /\ Len(EntitiesOf[call.question].companies) < 2
    /\ Len(EntitiesOf[call.question].years) < 2 )
  => /\ call.path = "comparison"
     /\ call.retrievals = <<>>
     /\ DOMAIN result = {"question", "error", "entities_detected"}
     /\ result.error = "Comparison requires at least 2 companies or 2 years"
     /\ result.entities_detected = EntitiesOf[call.question]

\* "all" occurs in the question only inside "overall"; the unfiltered retrieval of the
\* standard path would have found passages
C27_PhraseInsideWord ==
  /\ Answered
  /\ call.handleBefore # "None"
  /\ call.question = Q_Overall
  /\ ComparisonPhraseIn[call.question]
  /\ \A phrase \in Range(comparison_keywords) : phrase \notin WordSet(call.question)
  /\ EntitiesOf[call.question].companies = <<>>
  /\ EntitiesOf[call.question].years = <<>>
  /\ Matching(_build_metadata_filters(EntitiesOf[call.question])) # {}
  /\ \E o \in SearchOutcomes(call.top_k, _build_metadata_filters(EntitiesOf[call.question])) :
       o.docs # <<>>
  /\ call.retrievals = <<>>
  /\ "error" \in DOMAIN result

\* C28: a comparison question with two years or more and no organization issues no
\* retrieval; its record has comparison_type "year", an empty comparison_results list,
\* comparison_metrics holding only the need-at-least-2-results error, and no error field.
C28_YearsWithoutOrganization ==
  ( /\ Answered
    /\ call.handleBefore # "None"
    /\ Len(EntitiesOf[call.question].years) >= 2
    /\ EntitiesOf[call.question].companies = <<>> )
  => /\ call.path = "comparison"
     /\ call.retrievals = <<>>
     /\ DOMAIN result = { "question", "comparison_type", "comparison_results",
                          "comparison_metrics", "entities_detected" }
     /\ result.comparison_type = "year"
     /\ result.comparison_results = <<>>
     /\ DOMAIN result.comparison_metrics = {"error"}
     /\ result.comparison_metrics.error = "Need at least 2 results for comparison"

\* the question names 2022 and 2023 and no known organization
C28_TwoYearsNoOrganization ==
  /\ Answered
  /\ call.handleBefore # "None"
  /\ call.question = Q_YearsNoOrg
  /\ EntitiesOf[call.question].years = <<Y2022, Y2023>>
  /\ OrganizationsIn[call.question] = {}
  /\ result.comparison_type = "year"
  /\ call.retrievals = <<>>

\* the place of a name in the list of the known organizations
PlaceOf(company) == CHOOSE i \in 1..Len(KNOWN_COMPANIES) : KNOWN_COMPANIES[i] = company

\* C29: the organizations detected in a question are the known names that occur in it as
\* substrings, case-insensitively, in the order of the list; a question that names only
\* "Saudi Aramco" yields [Saudi Aramco, Aramco], is a comparison without any comparison
\* phrase, and is compared across organizations with one retrieval for each of the two.
C29_NameInsideName ==
  (Answered /\ call.path # "unavailable") =>
    /\ "entities_detected" \in DOMAIN result =>
         /\ Range(result.entities_detected.companies) = OrganizationsIn[call.question]
         /\ \A a, b \in 1..Len(result.entities_detected.companies) :
              a < b => PlaceOf(result.entities_detected.companies[a])
                         < PlaceOf(result.entities_detected.companies[b])
    /\ call.question = Q_Saudi =>
         /\ call.path = "comparison"
         /\ result.entities_detected.companies = <<SaudiAramco, Aramco>>
         /\ result.comparison_type = "company"
         /\ Len(call.retrievals) = 2
         /\ \A n \in 1..2 :
              /\ call.retrievals[n].filters.company_name = <<SaudiAramco, Aramco>>[n]
              /\ call.retrievals[n].k = 3

\* the question "Saudi Aramco emissions" has been answered: no comparison phrase, no year
C29_OnlySaudiAramco ==
  /\ Answered
  /\ call.handleBefore # "None"
  /\ call.question = Q_Saudi
  /\ ~ComparisonPhraseIn[call.question]
  /\ Contains(lower(SaudiAramco), lower(Aramco))
  /\ EntitiesOf[call.question].years = <<>>
  /\ Len(call.retrievals) = 2

Embedding == call.op = "_embed_single"

\* the requests of the call that failed: by an exception, a status other than 200, or a
\* 200 answer that is no JSON object with the field "embedding"
FailedRequest(outcome) ==
  ~(outcome.raised = "none" /\ outcome.status = 200 /\ outcome.body = "with embedding")

\* what holds all along a call of _embed_single: no exception leaves it, it has made at
\* most retries requests, all but the last of them failed, and once it has returned the
\* result is the embedding of the last request if that one succeeded and the 2048 zeros
\* if none did, after as many requests as retries allows
EmbedSingleSafe ==
  Embedding =>
    /\ pc # "raised"
    /\ Len(call.outcomes) <= call.retries
    /\ Len(call.outcomes) = call.attempt
    /\ \A n \in 1..(Len(call.outcomes) - 1) : FailedRequest(call.outcomes[n])
    /\ pc = "returned" =>
         IF call.outcomes # <<>> /\ ~FailedRequest(call.outcomes[Len(call.outcomes)])
         THEN result = call.outcomes[Len(call.outcomes)].embedding /\ ~call.fallback
         ELSE /\ result = [i \in 1..2048 |-> 0]
              /\ Len(result) = 2048
              /\ call.fallback
              /\ Len(call.outcomes) = call.retries
    /\ pc # "returned" => \A n \in 1..Len(call.outcomes) : FailedRequest(call.outcomes[n])

\* C30: _embed_single always terminates and never raises; it makes at most retries
\* requests, returns the embedding of the first request answered with status 200 and an
\* embedding field without any further request, and returns the all-zero vector when
\* every attempt fails by timeout, error, bad status or an answer without embedding.
C30_EmbedSingleTerminates ==
  /\ []EmbedSingleSafe
  /\ <>[](pc = "returned")

\* two requests failed, one by timeout and one by status, and the third was answered
C30_ThirdRequestAnswered ==
  /\ Embedding
  /\ pc = "returned"
  /\ call.caller = "embed_query"
  /\ call.retries = DEFAULT_RETRIES
  /\ Len(call.outcomes) = 3
  /\ call.outcomes[1].raised = "Timeout"
  /\ call.outcomes[2].status = 500
  /\ result = <<12, 0 - 7>>
  /\ Len(call.text) > 2000
  /\ Len(call.prompt) = 2000

\* every request failed, the last by an answer that is no JSON: the zeros are returned
C30_AllRequestsFailed ==
  /\ Embedding
  /\ pc = "returned"
  /\ call.retries = 2
  /\ call.outcomes[1].raised = "ConnectionError"
  /\ RaisedInTry(call.outcomes[2]) = "JSONDecodeError"
  /\ result = FALLBACK_EMBEDDING
=============================================================================
